---- MODULE Spec2Model ----
(***************************************************************************)
(* Event-anchored biomechanical signal pipeline of bowliverse_14           *)
(* (ActionLab V14): temporal anchor detection, elbow legality, action      *)
(* classification and the risk worker, as a state machine.                 *)
(*                                                                         *)
(* Numbers.  Frame indices, frame counts and fps are integers.             *)
(* Event confidences are in hundredths (0.62 -> 62), risk strengths in     *)
(* thousandths (0.15 -> 150), risk confidences in millionths, angles in    *)
(* degrees.                                                                *)
(*                                                                         *)
(* Visibilities and image coordinates are in hundredths (0.25 -> 25).      *)
(*                                                                         *)
(* Landmarks.  A clip is a sequence of frame kinds; Frames maps a kind to  *)
(* the record of what the code reads from that frame's landmark array:     *)
(* the shape and length of the array, visibilities, coordinates, and the   *)
(* values of the floating-point cues the detectors derive from them        *)
(* (documented at each field).  The control flow, the index arithmetic,    *)
(* the guards and the clamps are those of the source.                      *)
(***************************************************************************)
EXTENDS Integers, Sequences, FiniteSets, TLC

VARIABLES
    pc,            \* position of the run / of the call under analysis
    pose_frames,   \* [0..n-1 -> frame kind], the clip (see Frames)
    hand,          \* "R" or "L"
    fps_val,       \* video fps as read by the caller (0 = missing)
    args,          \* extra call arguments of the function under analysis
    events,        \* map event name -> event record
    action,        \* result of classify_action
    risks,         \* result of run_risk_worker (sequence of risk records)
    elbow_signal,  \* result of compute_elbow_signal
    elbow,         \* result of evaluate_elbow_legality
    ret,           \* value returned by the call under analysis
    raised         \* "none" or the exception that escaped

vars == << pc, pose_frames, hand, fps_val, args, events, action, risks,
           elbow_signal, elbow, ret, raised >>

(***************************************************************************)
(* Bounds of the model                                                     *)
(***************************************************************************)
MaxFrames == 11

(***************************************************************************)
(* Generic helpers                                                         *)
(***************************************************************************)
EmptyMap == [k \in {} |-> 0]

NoArgs == [none |-> TRUE]

Has(m, k) == k \in DOMAIN m

Min2(a, b) == IF a <= b THEN a ELSE b

Max2(a, b) == IF a >= b THEN a ELSE b

Abs(a) == IF a < 0 THEN -a ELSE a

NFrames(pf) == Cardinality(DOMAIN pf)

\* Python round() of the non-negative rational num/den (ties to even).
RoundHalfEven(num, den) ==
    LET q == num \div den
        r == num % den
    IN  IF 2 * r < den THEN q
        ELSE IF 2 * r > den THEN q + 1
        ELSE IF q % 2 = 0 THEN q ELSE q + 1

\* k-th smallest (0-based) of the values v[i], i \in S, for integer-valued v.
KthSmallest(v, S, k) ==
    CHOOSE x \in {v[i] : i \in S} :
        /\ Cardinality({i \in S : v[i] < x}) <= k
        /\ Cardinality({i \in S : v[i] <= x}) > k

\* Python int() of the rational num/den, den > 0 (truncation toward zero).
PyInt(num, den) == IF num >= 0 THEN num \div den ELSE -((-num) \div den)

\* Python round() of the rational num/den, den > 0 (ties to even).
PyRound(num, den) ==
    IF num >= 0 THEN RoundHalfEven(num, den) ELSE -RoundHalfEven(-num, den)

SetMax(S) == CHOOSE x \in S : \A y \in S : y <= x

SetMin(S) == CHOOSE x \in S : \A y \in S : x <= y

(***************************************************************************)
(* Pose frames (io/loader.py 89-107 and the legacy named-key shape of      *)
(* common/signal_quality.py 4-10)                                          *)
(*   lm     "null": landmarks is None; "list": list of len records with    *)
(*          x, y, z, visibility; "dict": landmarks keyed by name           *)
(*   vHips, vFeet  visibility of both hips / of the six foot landmarks     *)
(*   pelx   x of the pelvis centre (the pelvis moves along the x axis)     *)
(*   arm    per side: visibilities of shoulder, elbow, wrist and of the    *)
(*          hand landmarks, wrist x and y, shoulder y, elbow y,            *)
(*          theta = angle of the upper arm to the +x axis (degrees),       *)
(*          ang = interior elbow angle (degrees)                           *)
(*   R      level of the pelvis ratio w_rot / (v_lin + EPS) at the frame   *)
(*   gL, gR the left / right foot scores >= 2 of the three grounded cues   *)
(*   pt     x, y of hips, knees, ankles, heels, toes and shoulders (list   *)
(*          shape)                                                         *)
(*   named  the named-key shape: the keys present, and per key x, y in     *)
(*          thousandths and v in hundredths; ang = arctan2 of the          *)
(*          shoulder line in milliradians                                  *)
(***************************************************************************)
XY(x, y) == [x |-> x, y |-> y]

\* Standing pose: hips one above the other in the image (hip width 0.10).
QuietPt ==
    [hipL |-> XY(50, 50), hipR |-> XY(50, 60),
     kneeL |-> XY(45, 75), kneeR |-> XY(42, 75),
     ankL |-> XY(44, 88), ankR |-> XY(40, 88),
     heelL |-> XY(43, 90), heelR |-> XY(39, 90),
     toeL |-> XY(46, 90), toeR |-> XY(42, 90),
     shL |-> XY(46, 40), shR |-> XY(54, 40)]

\* Left foot planted across the line of progression (toe, heel and ankle).
LevelPt ==
    [QuietPt EXCEPT !.hipL = XY(52, 50), !.hipR = XY(52, 60),
                    !.toeL = XY(60, 95), !.heelL = XY(57, 94),
                    !.ankL = XY(58, 93), !.kneeL = XY(56, 80),
                    !.toeR = XY(48, 90)]

\* Left toe across the line, heel and ankle not (toe-out).
DownPt ==
    [QuietPt EXCEPT !.hipL = XY(54, 50), !.hipR = XY(54, 60),
                    !.toeL = XY(62, 91), !.heelL = XY(59, 89),
                    !.ankL = XY(60, 90), !.kneeL = XY(60, 80),
                    !.toeR = XY(54, 85)]

XYV(x, y, v) == [x |-> x, y |-> y, v |-> v]

NoNamed == [keys |-> {}, ang |-> 0]

NamedKeys ==
    {"LEFT_ANKLE", "RIGHT_ANKLE", "LEFT_HIP", "RIGHT_HIP",
     "LEFT_SHOULDER", "RIGHT_SHOULDER"}

NamedPose ==
    [keys |-> NamedKeys, ang |-> 0,
     LEFT_ANKLE |-> XYV(440, 900, 90), RIGHT_ANKLE |-> XYV(400, 900, 90),
     LEFT_HIP |-> XYV(480, 500, 90), RIGHT_HIP |-> XYV(520, 500, 90),
     LEFT_SHOULDER |-> XYV(450, 300, 90), RIGHT_SHOULDER |-> XYV(550, 300, 90)]

\* Ankles, pelvis and shoulder line moved; shoulder line turned by pi/2.
NamedDipPose ==
    [keys |-> NamedKeys, ang |-> 1571,
     LEFT_ANKLE |-> XYV(440, 910, 50), RIGHT_ANKLE |-> XYV(400, 906, 50),
     LEFT_HIP |-> XYV(500, 520, 50), RIGHT_HIP |-> XYV(540, 520, 50),
     LEFT_SHOULDER |-> XYV(500, 250, 50), RIGHT_SHOULDER |-> XYV(500, 350, 50)]

ArmUp ==
    [vs |-> 90, ve |-> 90, vw |-> 90, vh |-> 90, wx |-> 0, wy |-> 20,
     sy |-> 40, ey |-> 30, theta |-> 60, ang |-> 160]

ArmLevel == [ArmUp EXCEPT !.wx = 4, !.wy = 40, !.theta = 90, !.ang = 165]

ArmDown == [ArmUp EXCEPT !.wx = 5, !.wy = 60, !.ey = 55, !.theta = 150, !.ang = 170]

ArmHidden == [ArmUp EXCEPT !.vs = 10, !.ve = 10, !.vw = 10, !.vh = 10]

ArmHigh == [ArmUp EXCEPT !.ey = 10]

\* Elbow flexed to 20, 40 and 90 degrees.
ArmBent == [ArmUp EXCEPT !.ang = 20]

ArmMid == [ArmUp EXCEPT !.ang = 40]

ArmSpike == [ArmUp EXCEPT !.ang = 90]

NullFrame ==
    [lm |-> "null", len |-> 0, vHips |-> 0, vFeet |-> 0, pelx |-> 0,
     arm |-> [R |-> ArmHidden, L |-> ArmHidden],
     R |-> 0, gL |-> FALSE, gR |-> FALSE, pt |-> QuietPt, named |-> NoNamed]

\* A fully visible frame, pelvis quiet, feet in the air, bowling arm up.
QuietFrame ==
    [lm |-> "list", len |-> 33, vHips |-> 90, vFeet |-> 90, pelx |-> 0,
     arm |-> [R |-> ArmUp, L |-> ArmUp],
     R |-> 0, gL |-> FALSE, gR |-> FALSE, pt |-> QuietPt, named |-> NoNamed]

ActiveFrame == [QuietFrame EXCEPT !.R = 1]

PlantFrame == [QuietFrame EXCEPT !.gL = TRUE, !.gR = TRUE]

PlantLFrame == [QuietFrame EXCEPT !.gL = TRUE]

\* A landmark list that stops after the hips (no ankle, heel or toe entry).
NoFeetFrame == [QuietFrame EXCEPT !.len = 25]

\* Bowling (right) arm level with the shoulder, pelvis moved forward.
LevelFrame ==
    [QuietFrame EXCEPT !.arm.R = ArmLevel, !.pelx = 2, !.pt = LevelPt]

\* Both arms down (follow-through), pelvis further forward.
DownFrame ==
    [QuietFrame EXCEPT !.arm.R = ArmDown, !.arm.L = ArmDown, !.pelx = 4,
                       !.pt = DownPt]

\* Camera behind the bowler: the right arm is occluded.
BehindFrame == [QuietFrame EXCEPT !.arm.R = ArmHidden]

\* As BehindFrame, with the left elbow swept up.
SweepFrame == [QuietFrame EXCEPT !.arm.R = ArmHidden, !.arm.L = ArmHigh]

\* Both elbows flexed (20, 40, 90 degrees).
BentFrame == [QuietFrame EXCEPT !.arm.R = ArmBent, !.arm.L = ArmBent]

MidFrame == [QuietFrame EXCEPT !.arm.R = ArmMid, !.arm.L = ArmMid]

SpikeFrame == [QuietFrame EXCEPT !.arm.R = ArmSpike, !.arm.L = ArmSpike]

\* Landmarks keyed by name (six keys).
NamedFrame ==
    [NullFrame EXCEPT !.lm = "dict", !.len = 6, !.named = NamedPose]

NamedDipFrame ==
    [NullFrame EXCEPT !.lm = "dict", !.len = 6, !.named = NamedDipPose]

Frames ==
    [Null |-> NullFrame, Quiet |-> QuietFrame, Active |-> ActiveFrame,
     Plant |-> PlantFrame, PlantL |-> PlantLFrame, NoFeet |-> NoFeetFrame,
     Level |-> LevelFrame, Down |-> DownFrame, Behind |-> BehindFrame,
     Sweep |-> SweepFrame, Named |-> NamedFrame, NamedDip |-> NamedDipFrame,
     Bent |-> BentFrame, Mid |-> MidFrame, Spike |-> SpikeFrame]

\* pose_frames[i] as the code sees it
F(pf, i) == Frames[pf[i]]

\* Clips of n frames in three phases: frames before b1 are of kind k1, frames
\* before b2 of kind k2, the rest of kind k3.
ThreePhase(n, P) ==
    { [i \in 0..(n - 1) |-> IF i < b[1] THEN k[1] ELSE IF i < b[2] THEN k[2] ELSE k[3]] :
        b \in {c \in (0..n) \X (0..n) : c[1] <= c[2]}, k \in P \X P \X P }

\* Uniform clips of n frames of one kind.
Uniform(n, P) == { [i \in 0..(n - 1) |-> k] : k \in P }

\* Clips of n frames in four phases.
FourPhase(n, P) ==
    { [i \in 0..(n - 1) |-> IF i < b[1] THEN k[1] ELSE IF i < b[2] THEN k[2]
                            ELSE IF i < b[3] THEN k[3] ELSE k[4]] :
        b \in {c \in (0..n) \X (0..n) \X (0..n) : c[1] <= c[2] /\ c[2] <= c[3]},
        k \in P \X P \X P \X P }

\* The clip c with frame g undetected (landmarks null).
Gap(c, g) == [i \in DOMAIN c |-> IF i = g THEN "Null" ELSE c[i]]

(***************************************************************************)
(* workers/events/ffc_bfc.py                                               *)
(***************************************************************************)
FFC_MIN_FRAMES == 10

FFC_DEFAULT_FPS == 30

FFC_MIN_VIS == 25

LH == 23

RH == 24

LA == 27

RA == 28

LFI == 31

RFI == 32

_clamp(v, lo, hi) == Max2(lo, Min2(hi, v))

\* fps handling of detect_ffc_bfc: missing, zero or negative -> 30; >= 1.
ffc_fps_f(fps) == IF fps <= 0 THEN FFC_DEFAULT_FPS ELSE Max2(1, fps)

ffc_lookback(fps_f) == RoundHalfEven(9 * fps_f, 10)

ffc_hold(fps_f) == Max2(3, RoundHalfEven(5 * fps_f, 100))

ffc_back_recent(fps_f) == Max2(2, RoundHalfEven(3 * fps_f, 100))

ffc_win_start(n, rel, fps_f) == _clamp(rel - ffc_lookback(fps_f), 0, n - 1)

ffc_win_end_mut(n, rel, fps_f) ==
    _clamp(rel, ffc_win_start(n, rel, fps_f), n - 1)

ffc_win_end(n, rel, fps_f) ==
    _clamp(rel - 2, ffc_win_start(n, rel, fps_f), n - 1)

\* lm = fr.get("landmarks") or []; a non-empty list
ffc_has_lm(fr) == fr.lm = "list" /\ fr.len > 0

\* _xy(lm, idx) is not None: the list reaches idx (records carry x and y).
ffc_xy(fr, idx) == fr.lm = "list" /\ idx < fr.len

\* _series_y(pose_frames, idx) has a finite value: after _interp_nans the
\* series is finite everywhere iff at least 2 frames carry the landmark.
series_finite(fr, idx) ==
    Cardinality({i \in DOMAIN fr : ffc_xy(fr[i], idx)}) >= 2

\* The per-frame arrays of detect_ffc_bfc:
\*   pel  _pelvis_xy(lm) is not None and finite
\*   vis  vis_ok[i]: both hips have visibility >= MIN_VIS
\*   R    level of the rotation/translation ratio w_rot / (v_lin + EPS)
\*        after interpolation and smoothing (field R)
\*   sf   finiteness of the ankle and foot-index series
\*   g    the three float cues of _foot_ground_score (near-low, low
\*        velocity, low jitter; score >= 2), fields gL / gR
ffc_arrays(fr) ==
    [n   |-> Cardinality(DOMAIN fr),
     pel |-> [i \in DOMAIN fr |-> ffc_has_lm(fr[i]) /\ ffc_xy(fr[i], LH) /\ ffc_xy(fr[i], RH)],
     vis |-> [i \in DOMAIN fr |-> /\ ffc_has_lm(fr[i])
                                  /\ LH < fr[i].len /\ RH < fr[i].len
                                  /\ fr[i].vHips >= FFC_MIN_VIS],
     R   |-> [i \in DOMAIN fr |-> fr[i].R],
     sf  |-> [idx \in {LA, RA, LFI, RFI} |-> series_finite(fr, idx)],
     g   |-> [side \in {"L", "R"} |->
                [i \in DOMAIN fr |-> IF side = "L" THEN fr[i].gL ELSE fr[i].gR]]]

ffc_collect(pf) == ffc_arrays([i \in DOMAIN pf |-> F(pf, i)])

valid_pelvis_count(c) == Cardinality({i \in DOMAIN c.pel : c.pel[i]})

\* numpy percentile 70 (linear interpolation) of R over [win_start..win_end],
\* times 10.
R_on_x10(R, ws, we) ==
    LET W == ws..we
        m == we - ws + 1
        pos10 == 7 * (m - 1)
        lo == pos10 \div 10
        fr == pos10 % 10
        xlo == KthSmallest(R, W, lo)
        xhi == KthSmallest(R, W, Min2(lo + 1, m - 1))
    IN  10 * xlo + fr * (xhi - xlo)

\* Backward scan for the pelvis activity onset (cur = -1: pelvis_on is None).
RECURSIVE pelvis_scan(_, _, _, _, _)
pelvis_scan(c, i, ws, ron10, cur) ==
    IF i <= ws THEN cur
    ELSE IF c.vis[i] /\ 10 * c.R[i] > ron10
         THEN pelvis_scan(c, i - 1, ws, ron10, i)
         ELSE IF cur # -1 THEN cur
              ELSE pelvis_scan(c, i - 1, ws, ron10, cur)

pelvis_on_of(p, ws) == IF p = -1 THEN ws ELSE p

pelvis_on(c, ws, we) ==
    pelvis_on_of(pelvis_scan(c, we, ws, R_on_x10(c.R, ws, we), -1), ws)

no_foot_data(c) ==
    \/ (~c.sf[LA] /\ ~c.sf[RA])
    \/ (~c.sf[LFI] /\ ~c.sf[RFI])

\* _is_grounded: the index guard and the finiteness guard of
\* _foot_ground_score, then the score of the three cues.
_is_grounded(c, side, t, hold) ==
    /\ ~(t < 0 \/ t + hold >= c.n)
    /\ IF side = "L" THEN c.sf[LA] /\ c.sf[LFI] ELSE c.sf[RA] /\ c.sf[RFI]
    /\ c.g[side][t]

_recently_grounded(c, side, t, hold, win0, lookback) ==
    \E j \in Max2(win0, t - lookback)..(t - 1) : _is_grounded(c, side, j, hold)

ffc_ev(frame, conf, method) ==
    [frame |-> frame, confidence |-> conf, method |-> method]

\* bfc = _clamp(ffc - max(3, hold), win_start, ffc)
ffc_bfc_of(ffc, hold, ws) == _clamp(ffc - Max2(3, hold), ws, ffc)

ffc_pair(ffc, hold, ws, cf, cb, mf, mb) ==
    ("ffc" :> ffc_ev(ffc, cf, mf)) @@ ("bfc" :> ffc_ev(ffc_bfc_of(ffc, hold, ws), cb, mb))

\* the frames of range(pelvis_on, win_end - hold) that pass case A or case B
ffc_primary(c, pon, we, hold, ws, back_recent) ==
    {i \in pon..(we - hold - 1) :
        \/ /\ _is_grounded(c, "L", i, hold)
           /\ (\/ _is_grounded(c, "R", i, hold)
               \/ _recently_grounded(c, "R", i, hold, ws, back_recent))
        \/ /\ _is_grounded(c, "R", i, hold)
           /\ (\/ _is_grounded(c, "L", i, hold)
               \/ _recently_grounded(c, "L", i, hold, ws, back_recent))}

\* the frames of range(pelvis_on, win_end - hold) with one grounded foot
ffc_single(c, pon, we, hold) ==
    {i \in pon..(we - hold - 1) :
        _is_grounded(c, "L", i, hold) \/ _is_grounded(c, "R", i, hold)}

\* forward lock, then the fallback ladder
ffc_ladder(primary, single, pon, we, hold, ws) ==
    IF primary # {}
    THEN ffc_pair(SetMin(primary), hold, ws, 62, 35,
                  "pelvis_then_geometry_relaxed", "context_pre_ffc")
    ELSE IF single # {}
    THEN ffc_pair(SetMin(single), hold, ws, 22, 22,
                  "single_foot_fallback", "single_foot_fallback")
    ELSE ffc_pair(_clamp(pon + ((3 * (we - pon)) \div 4), pon, we), hold, ws, 15, 15,
                  "ultimate_fallback", "ultimate_fallback")

ffc_lock(c, pon, we, hold, ws, back_recent) ==
    IF no_foot_data(c)
    THEN ffc_pair(pon, hold, ws, 20, 20,
                  "no_foot_data_fallback", "no_foot_data_fallback")
    ELSE ffc_ladder(ffc_primary(c, pon, we, hold, ws, back_recent),
                    ffc_single(c, pon, we, hold), pon, we, hold, ws)

ffc_run(c, has_release, ws, we, hold, back_recent) ==
    IF c.n < FFC_MIN_FRAMES THEN EmptyMap
    ELSE IF ~has_release THEN EmptyMap
    ELSE IF we <= ws + 2
         THEN "ffc" :> ffc_ev(ws, 15, "degenerate_window")
    ELSE IF valid_pelvis_count(c) < Max2(hold, 6)
         THEN "ffc" :> ffc_ev(ws, 10, "insufficient_landmarks")
    ELSE ffc_lock(c, pelvis_on(c, ws, we), we, hold, ws, back_recent)

ffc_windowed(c, has_release, rel, fps_f) ==
    ffc_run(c, has_release, ffc_win_start(c.n, rel, fps_f), ffc_win_end(c.n, rel, fps_f),
            ffc_hold(fps_f), ffc_back_recent(fps_f))

detect_ffc_bfc(pf, has_release, release_frame, fps) ==
    ffc_windowed(ffc_collect(pf), has_release, release_frame, ffc_fps_f(fps))

(***************************************************************************)
(* detect_ffc_bfc as a function of its arguments                           *)
(***************************************************************************)
FfcPalette == {"Null", "Quiet", "Active", "Plant", "PlantL", "NoFeet"}

FfcFps == {0, 10}

FfcClips ==
    UNION { ThreePhase(n, FfcPalette) : n \in FFC_MIN_FRAMES..MaxFrames }
    \cup Uniform(FFC_MIN_FRAMES - 1, FfcPalette)

\* release_frame as given by the caller: an integer, or None (has_release
\* FALSE: _as_int fails).
FfcArgs ==
    [has_release : {TRUE}, release_frame : (-1)..(MaxFrames + 1), fps : FfcFps]
    \cup [has_release : {FALSE}, release_frame : {0}, fps : FfcFps]

InitFfc ==
    /\ pc = "ffc_call"
    /\ pose_frames \in FfcClips
    /\ hand = "R"
    /\ fps_val = 0
    /\ args \in FfcArgs
    /\ events = EmptyMap
    /\ action = EmptyMap
    /\ risks = << >>
    /\ elbow_signal = << >>
    /\ elbow = EmptyMap
    /\ ret = EmptyMap
    /\ raised = "none"

CallDetectFfcBfc ==
    /\ pc = "ffc_call"
    /\ ret' = detect_ffc_bfc(pose_frames, args.has_release, args.release_frame, args.fps)
    /\ pc' = "ffc_done"
    /\ UNCHANGED << pose_frames, hand, fps_val, args, events, action, risks,
                    elbow_signal, elbow, raised >>

NextFfc == CallDetectFfcBfc

SpecFfc == InitFfc /\ [][NextFfc]_vars

FfcBoth == pc = "ffc_done" /\ Has(ret, "ffc") /\ Has(ret, "bfc")

\* C1: every result of detect_ffc_bfc that holds both an ffc and a bfc event
\* has bfc.frame strictly less than ffc.frame.
C1_BfcBeforeFfc == FfcBoth => ret["bfc"].frame < ret["ffc"].frame

\* C2: every result of detect_ffc_bfc that holds both an ffc and a bfc event
\* has ffc.frame strictly less than the release frame the detector was given.
C2_FfcBeforeRelease == FfcBoth => ret["ffc"].frame < args.release_frame

C2_Witness ==
    /\ FfcBoth
    /\ ret["ffc"].method = "pelvis_then_geometry_relaxed"
    /\ ret["ffc"].frame = args.release_frame - 6

\* C19: detect_ffc_bfc never returns an empty result: for every frame count
\* and every release frame value the result holds an ffc event with a frame,
\* a confidence and a method.
C19_FfcAlwaysReturned ==
    pc = "ffc_done" =>
        /\ Has(ret, "ffc")
        /\ {"frame", "confidence", "method"} \subseteq DOMAIN ret["ffc"]

\* the bfc frame before the clamp into [win_start, ffc]
BfcUnclamped ==
    ret["ffc"].frame - Max2(3, ffc_hold(ffc_fps_f(args.fps)))

BfcClamped == FfcBoth /\ ret["bfc"].frame # BfcUnclamped

\* the confidence a detection path gives its bfc event when no clamp acts
BfcPathConfidence(method) ==
    IF method = "context_pre_ffc" THEN 35
    ELSE IF method = "single_foot_fallback" THEN 22
    ELSE IF method = "no_foot_data_fallback" THEN 20 ELSE 15

\* C22: a bfc event whose frame had to be clamped into [win_start, ffc]
\* carries a lower confidence than the unclamped outcome of the same
\* detection path.
C22_ClampLowersConfidence ==
    BfcClamped => ret["bfc"].confidence < BfcPathConfidence(ret["bfc"].method)

(***************************************************************************)
(* workers/events/release_uah.py                                           *)
(*                                                                         *)
(* Wrist velocities are in hundredths of image width per second, smoothed  *)
(* series carry the kernel's scale (weights times 100000), non-bowling     *)
(* elbow heights are in 1e-4 units so that np.interp stays integral.       *)
(* fps <= 33 throughout: sigma = max(1.0, 0.03 fps) = 1.0 for the wrist    *)
(* and elbow series, max(1.2, 0.03 fps) = 1.2 for the upper-arm angle.     *)
(***************************************************************************)
LS == 11

RS == 12

LE == 13

RE == 14

LW == 15

RW == 16

REL_MIN_VIS == 25

REL_MIN_FRAMES == 10

REL_DEFAULT_FPS == 25

\* fps = float(fps or 25.0): only a missing or zero fps is replaced.
rel_fps(fps) == IF fps = 0 THEN REL_DEFAULT_FPS ELSE fps

\* h = (hand or "R").upper(); bowling arm is the right one iff h == "R".
rel_hand(h) == IF h \in {"R", "r", ""} THEN "R" ELSE "L"

rel_other(h) == IF rel_hand(h) = "R" THEN "L" ELSE "R"

rel_s_idx(h) == IF rel_hand(h) = "R" THEN RS ELSE LS

rel_e_idx(h) == IF rel_hand(h) = "R" THEN RE ELSE LE

rel_w_idx(h) == IF rel_hand(h) = "R" THEN RW ELSE LW

\* _vis(i) inside the collection loop: the landmark, or None when the list is
\* too short or the visibility is below MIN_VIS (landmarks None -> []).
rel_vis(fr, idx, v) == fr.lm = "list" /\ idx < fr.len /\ v >= REL_MIN_VIS

\* The collection loop: per frame, which landmarks were kept and their
\* coordinates (w, s, e: bowling wrist, shoulder, elbow; nb_e: non-bowling
\* elbow; pel: both hips).
rel_collect(pf, h) ==
    LET arm(i) == F(pf, i).arm[rel_hand(h)]
        nba(i) == F(pf, i).arm[rel_other(h)]
    IN  [n |-> NFrames(pf),
         w |-> [i \in DOMAIN pf |-> rel_vis(F(pf, i), rel_w_idx(h), arm(i).vw)],
         s |-> [i \in DOMAIN pf |-> rel_vis(F(pf, i), rel_s_idx(h), arm(i).vs)],
         e |-> [i \in DOMAIN pf |-> rel_vis(F(pf, i), rel_e_idx(h), arm(i).ve)],
         nb_e |-> [i \in DOMAIN pf |->
                     rel_vis(F(pf, i), rel_e_idx(rel_other(h)), nba(i).ve)],
         pel |-> [i \in DOMAIN pf |-> /\ rel_vis(F(pf, i), LH, F(pf, i).vHips)
                                      /\ rel_vis(F(pf, i), RH, F(pf, i).vHips)],
         wx |-> [i \in DOMAIN pf |-> arm(i).wx],
         wy |-> [i \in DOMAIN pf |-> arm(i).wy],
         sy |-> [i \in DOMAIN pf |-> arm(i).sy],
         ey |-> [i \in DOMAIN pf |-> arm(i).ey],
         theta |-> [i \in DOMAIN pf |-> arm(i).theta],
         nb_ey |-> [i \in DOMAIN pf |-> nba(i).ey],
         pelx |-> [i \in DOMAIN pf |-> F(pf, i).pelx]]

RECURSIVE SumOver(_, _)
SumOver(f, S) ==
    IF S = {} THEN 0
    ELSE LET x == CHOOSE y \in S : TRUE IN f[x] + SumOver(f, S \ {x})

Sign(a) == IF a > 0 THEN 1 ELSE IF a < 0 THEN -1 ELSE 0

\* forward = unit(sum of pelvis displacements), (1,0,0) when there is none;
\* the pelvis moves along x, so forward is (+1|0|-1, 0, 0): its x component.
rel_forward(c) ==
    LET V == {i \in 1..(c.n - 1) : c.pel[i] /\ c.pel[i - 1]}
    IN  IF V = {} THEN 1
        ELSE Sign(SumOver([i \in V |-> c.pelx[i] - c.pelx[i - 1]], V))

\* frames i >= 1 with the wrist visible at i and i-1
rel_wrist_pairs(c) == {i \in 1..(c.n - 1) : c.w[i] /\ c.w[i - 1]}

\* wrist_fwd[i] = dot(dv, forward) / dt
rel_wrist_fwd(c, fwd, fps) ==
    [i \in 0..(c.n - 1) |->
        IF i >= 1 /\ c.w[i] /\ c.w[i - 1]
        THEN (c.wx[i] - c.wx[i - 1]) * fwd * fps
        ELSE 0]

\* scipy.ndimage.gaussian_filter1d weights (times 100000), truncate = 4.0:
\* sigma = 1.0 has radius 4, sigma = 1.2 has radius 5.
GaussKernel1 == << 39894, 24197, 5399, 443, 13 >>

GaussKernel12 == << 33245, 23493, 8290, 1461, 129, 6 >>

KernelSum(K) == K[1] + 2 * SumOver([k \in 2..Len(K) |-> K[k]], 2..Len(K))

\* mode='reflect': (d c b a | a b c d | d c b a)
Reflect(j, n) == IF j < 0 THEN -j - 1 ELSE IF j >= n THEN 2 * n - 1 - j ELSE j

gaussian_filter1d(x, K) ==
    [i \in DOMAIN x |->
        SumOver([k \in (1 - Len(K))..(Len(K) - 1) |->
                    K[Abs(k) + 1] * x[Reflect(i + k, Cardinality(DOMAIN x))]],
                (1 - Len(K))..(Len(K) - 1))]

\* np.argmax / np.argmin: the first index of the extreme value
ArgMax(x) == SetMin({i \in DOMAIN x : \A j \in DOMAIN x : x[j] <= x[i]})

ArgMin(x) == SetMin({i \in DOMAIN x : \A j \in DOMAIN x : x[i] <= x[j]})

\* wrist_visibility_ratio < 0.3
low_wrist_visibility(c) ==
    10 * Cardinality(rel_wrist_pairs(c)) < 3 * Max2(1, c.n - 1)

\* nb_elbow_visible_count > max(5, int(0.1 * fps))
nb_elbow_available(c, fps) ==
    Cardinality({i \in DOMAIN c.nb_e : c.nb_e[i]}) > Max2(5, PyInt(fps, 10))

\* nb_elbow_y with the gaps filled by np.interp (end values held outside the
\* visible range), in 1e-4 units, interior values to the nearest unit.
rel_interp(y, G) ==
    [i \in DOMAIN y |->
        IF i \in G THEN 100 * y[i]
        ELSE IF i < SetMin(G) THEN 100 * y[SetMin(G)]
        ELSE IF i > SetMax(G) THEN 100 * y[SetMax(G)]
        ELSE LET a == SetMax({j \in G : j < i})
                 b == SetMin({j \in G : j > i})
             IN  100 * y[a] + PyRound(100 * (y[b] - y[a]) * (i - a), b - a)]

\* nb_elbow_peak_i = argmin of the smoothed height (y grows downward);
\* -1 stands for None.
nb_elbow_peak_i(c, fps) ==
    IF nb_elbow_available(c, fps)
    THEN ArgMin(gaussian_filter1d(
                    rel_interp(c.nb_ey, {i \in DOMAIN c.nb_e : c.nb_e[i]}),
                    GaussKernel1))
    ELSE -1

\* is_pre_followthrough(i); the upper-arm-angle strategy is shadowed by the
\* elbow strategy, which has the same guard.
is_pre_followthrough(c, nbp, low_vis, fps, i) ==
    IF nbp # -1 THEN i <= nbp + PyInt(2 * fps, 100)
    ELSE IF c.w[i] /\ c.s[i] THEN c.wy[i] <= c.sy[i] + 4
    ELSE IF c.e[i] /\ c.s[i] THEN c.ey[i] <= c.sy[i] + 10
    ELSE low_vis

\* anchor window offsets; nb_anchor: the anchor is the non-bowling elbow peak
\* (available and the wrist mostly hidden)
rel_min_offset(nb_anchor, fps) ==
    IF nb_anchor THEN Max2(1, PyRound(2 * fps, 100))
    ELSE Max2(2, PyRound(5 * fps, 100))

rel_max_offset(nb_anchor, fps) ==
    IF nb_anchor THEN Max2(2, PyRound(5 * fps, 100))
    ELSE Max2(4, PyRound(10 * fps, 100))

\* Release selection.  S is wrist_fwd_s; the record holds the locals of
\* detect_release_uah right after the selection tiers (selection_confidence
\* in thousandths).
rel_select(c, S, nbp, low_vis, fps) ==
    LET peak_i == ArgMax(S)
        M == SetMax({Abs(S[i]) : i \in DOMAIN S})
        \* vmax = max(1e-6, M): an all-zero signal is below every share of it
        ge70(i) == IF M = 0 THEN FALSE ELSE 10 * S[i] >= 7 * M
        le80(i) == IF M = 0 THEN S[i] <= 0 ELSE 10 * S[i] <= 8 * M
        nb_anchor == nbp # -1 /\ low_vis
        anchor_i == IF nb_anchor THEN nbp ELSE peak_i
        start == Max2(0, Min2(c.n - 1, anchor_i - rel_min_offset(nb_anchor, fps)))
        end == Min2(c.n - 1, anchor_i + rel_max_offset(nb_anchor, fps))
        wvw == {i \in start..end : c.w[i]}
        at_shoulder == {i \in wvw : /\ c.s[i]
                                    /\ -2 <= c.wy[i] - c.sy[i]
                                    /\ c.wy[i] - c.sy[i] <= 2
                                    /\ ge70(i)}
        drop == {i \in wvw : /\ i > start
                             /\ le80(i) /\ ~le80(i - 1)
                             /\ c.s[i]
                             /\ c.wy[i] <= c.sy[i] + 10}
        offset_frames == Max2(1, PyRound(2 * fps, 30))
        sel == IF nbp # -1 /\ start <= nbp /\ nbp <= end
               THEN [i |-> nbp, method |-> "nb_elbow_peak", conf |-> 900]
               ELSE IF Cardinality(wvw) >= 3 /\ at_shoulder # {}
               THEN [i |-> SetMin(at_shoulder), method |-> "wrist_at_shoulder",
                     conf |-> 850]
               ELSE IF Cardinality(wvw) >= 3 /\ drop # {}
               THEN [i |-> SetMin(drop), method |-> "velocity_drop_20pct",
                     conf |-> 750]
               ELSE IF nbp # -1 /\ Abs(nbp - anchor_i) <= PyInt(10 * fps, 100)
               THEN [i |-> nbp, method |-> "nb_elbow_nearby", conf |-> 800]
               ELSE [i |-> Min2(end, peak_i + offset_frames),
                     method |-> "peak_plus_offset", conf |-> 600]
    IN  [peak_i |-> peak_i, start |-> start, end |-> end,
         release_i |-> sel.i, method |-> sel.method, confidence |-> sel.conf]

\* the validation without the window start as lower limit of its range
rel_validate_mut(c, sel) ==
    LET C == {i \in Max2(0, sel.release_i - 5)..(sel.release_i - 1) :
                 c.w[i] /\ c.s[i] /\ c.wy[i] <= c.sy[i] + 5}
    IN  IF /\ c.w[sel.release_i] /\ c.s[sel.release_i]
           /\ c.wy[sel.release_i] > c.sy[sel.release_i] + 15
           /\ C # {}
        THEN [sel EXCEPT !.release_i = SetMin(C),
                         !.method = sel.method \o "_corrected",
                         !.confidence = (9 * sel.confidence) \div 10]
        ELSE sel

\* Validation of the selected frame: a wrist far below the shoulder is
\* follow-through; take the first frame of range(max(start, release_i - 5),
\* release_i) whose wrist is within 0.05 of the shoulder height.
rel_validate(c, sel) ==
    LET C == {i \in Max2(sel.start, sel.release_i - 5)..(sel.release_i - 1) :
                 c.w[i] /\ c.s[i] /\ c.wy[i] <= c.sy[i] + 5}
    IN  IF /\ c.w[sel.release_i] /\ c.s[sel.release_i]
           /\ c.wy[sel.release_i] > c.sy[sel.release_i] + 15
           /\ C # {}
        THEN [sel EXCEPT !.release_i = SetMin(C),
                         !.method = sel.method \o "_corrected",
                         !.confidence = (9 * sel.confidence) \div 10]
        ELSE sel

\* _upper_arm_angle(s, e, forward) in degrees, 0 when shoulder or elbow is
\* not visible; the frame's theta is the angle to the +x axis.
rel_theta(c, fwd) ==
    [i \in 0..(c.n - 1) |->
        IF ~(c.s[i] /\ c.e[i]) THEN 0
        ELSE IF fwd = 1 THEN c.theta[i]
        ELSE IF fwd = -1 THEN 180 - c.theta[i]
        ELSE 90]

\* UAH search, backward from release_i - 1 and stopping before
\* max(0, release_i - int(0.30 * fps)); T is theta_s.
rel_uah(c, T, nbp, low_vis, fps, release_i) ==
    LET W == KernelSum(GaussKernel12)
        C == {i \in (Max2(0, release_i - PyInt(30 * fps, 100)) + 1)..(release_i - 1) :
                 /\ is_pre_followthrough(c, nbp, low_vis, fps, i)
                 /\ 70 * W <= T[i] /\ T[i] <= 110 * W}
        best == {i \in C : \A j \in C : Abs(T[i] - 90 * W) <= Abs(T[j] - 90 * W)}
        uah_i == IF C = {} THEN Max2(0, release_i - 1) ELSE SetMax(best)
    IN  IF uah_i >= release_i THEN Max2(0, release_i - 1) ELSE uah_i

\* The locals of detect_release_uah at its return.
rel_locals(c, fwd, nbp, low_vis, fps) ==
    LET sel == rel_validate(c,
                   rel_select(c,
                       gaussian_filter1d(rel_wrist_fwd(c, fwd, fps), GaussKernel1),
                       nbp, low_vis, fps))
    IN  sel @@
        [uah_i |-> rel_uah(c, gaussian_filter1d(rel_theta(c, fwd), GaussKernel12),
                           nbp, low_vis, fps, sel.release_i)]

rel_run(c, fps) ==
    rel_locals(c, rel_forward(c), nb_elbow_peak_i(c, fps),
               low_wrist_visibility(c), fps)

\* The returned map; frames are labelled by their index (io/loader.py).
rel_result(loc) ==
    ("release" :> [frame |-> loc.release_i])
    @@ ("uah" :> [frame |-> loc.uah_i])
    @@ ("delivery_window" :> << loc.start, loc.end >>)
    @@ ("peak" :> [frame |-> loc.peak_i])

detect_release_uah(pf, h, fps_in) ==
    IF NFrames(pf) < REL_MIN_FRAMES THEN EmptyMap
    ELSE rel_result(rel_run(rel_collect(pf, h), rel_fps(fps_in)))

(***************************************************************************)
(* detect_release_uah as a function of its arguments                       *)
(***************************************************************************)
RelPalette == {"Null", "Quiet", "Level", "Down", "Behind", "Sweep"}

RelFps == {0, 30, -25}

RelHands == {"R", "L"}

RelClips ==
    UNION { ThreePhase(n, RelPalette) : n \in REL_MIN_FRAMES..MaxFrames }
    \cup Uniform(REL_MIN_FRAMES - 1, RelPalette)

InitRel ==
    /\ pc = "rel_call"
    /\ pose_frames \in RelClips
    /\ hand \in RelHands
    /\ fps_val \in RelFps
    /\ args = NoArgs
    /\ events = EmptyMap
    /\ action = EmptyMap
    /\ risks = << >>
    /\ elbow_signal = << >>
    /\ elbow = EmptyMap
    /\ ret = EmptyMap
    /\ raised = "none"

CallDetectReleaseUah ==
    /\ pc = "rel_call"
    /\ ret' = detect_release_uah(pose_frames, hand, fps_val)
    /\ pc' = "rel_done"
    /\ UNCHANGED << pose_frames, hand, fps_val, args, events, action, risks,
                    elbow_signal, elbow, raised >>

NextRel == CallDetectReleaseUah

SpecRel == InitRel /\ [][NextRel]_vars

RelNonEmpty == pc = "rel_done" /\ Has(ret, "release") /\ Has(ret, "uah")

\* C3: in every non-empty result of detect_release_uah, uah.frame is
\* strictly less than release.frame.
C3_UahBeforeRelease == RelNonEmpty => ret["uah"].frame < ret["release"].frame

\* a clip of at least REL_MIN_FRAMES frames, each with null landmarks
AllNullClip ==
    /\ NFrames(pose_frames) >= REL_MIN_FRAMES
    /\ \A i \in DOMAIN pose_frames : pose_frames[i] = "Null"

\* C16: for a clip of at least 10 frames whose landmarks are null in every
\* frame, detect_release_uah emits no release and no uah event: the events
\* map it returns is empty.
C16_AllNullNoEvents ==
    (pc = "rel_done" /\ AllNullClip)
        => ~Has(ret, "release") /\ ~Has(ret, "uah") /\ ret = EmptyMap

\* C18: on every selection tier the release frame of detect_release_uah is
\* at or after the wrist-velocity peak and at most max(4, round(0.10 * fps))
\* frames after it.
C18_ReleaseWithinPeakWindow ==
    RelNonEmpty =>
        /\ ret["peak"].frame <= ret["release"].frame
        /\ ret["release"].frame
              <= ret["peak"].frame + Max2(4, PyRound(10 * rel_fps(fps_val), 100))

rel_selected(c, fps) ==
    rel_select(c, gaussian_filter1d(rel_wrist_fwd(c, rel_forward(c), fps), GaussKernel1),
               nb_elbow_peak_i(c, fps), low_wrist_visibility(c), fps)

\* the tier that selected the release frame of the call
SelectedTier == rel_selected(rel_collect(pose_frames, hand), rel_fps(fps_val))

FarBelow(c, i) == c.w[i] /\ c.s[i] /\ c.wy[i] > c.sy[i] + 15

\* the frames before the selected one, at most 5 back and not before the
\* window start, whose wrist is at most 0.05 below the shoulder
EarlierFrames(c, sel) ==
    {i \in Max2(sel.start, sel.release_i - 5)..(sel.release_i - 1) :
        c.w[i] /\ c.s[i] /\ c.wy[i] <= c.sy[i] + 5}

NearestEarlier(sel, E, release) ==
    release = IF E = {} THEN sel.release_i ELSE SetMax(E)

CorrectedToNearest(c, sel, release) ==
    FarBelow(c, sel.release_i) => NearestEarlier(sel, EarlierFrames(c, sel), release)

\* C24: when the selected release frame has the wrist far below the
\* shoulder, detect_release_uah returns instead the latest frame before it,
\* at most 5 frames back and not before the window start, whose wrist is at
\* most 0.05 below the shoulder, and the selected frame when there is none.
C24_CorrectedToNearestEarlier ==
    RelNonEmpty =>
        CorrectedToNearest(rel_collect(pose_frames, hand),
                           rel_selected(rel_collect(pose_frames, hand), rel_fps(fps_val)),
                           ret["release"].frame)

\* the frames before release, less than int(0.30 * fps) frames back, that
\* are pre-follow-through with a smoothed upper-arm angle T in [70, 110]
UahLookback(c, T, nbp, low_vis, fps, release) ==
    {i \in 0..(release - 1) :
        /\ i > release - PyInt(30 * fps, 100)
        /\ is_pre_followthrough(c, nbp, low_vis, fps, i)
        /\ 70 * KernelSum(GaussKernel12) <= T[i]
        /\ T[i] <= 110 * KernelSum(GaussKernel12)}

\* the frame of C closest to 90 degrees, the one nearest release on ties
ClosestToHorizontal(C, T, release) ==
    IF C = {} THEN Max2(0, release - 1)
    ELSE SetMax({i \in C : \A j \in C :
                    Abs(T[i] - 90 * KernelSum(GaussKernel12))
                        <= Abs(T[j] - 90 * KernelSum(GaussKernel12))})

UahAsSearched(c, T, fps, release) ==
    ClosestToHorizontal(
        UahLookback(c, T, nb_elbow_peak_i(c, fps), low_wrist_visibility(c), fps, release),
        T, release)

\* C25: the uah frame returned by detect_release_uah is the frame before
\* release, inside the lookback of int(0.30 * fps) frames, that is
\* pre-follow-through with a smoothed upper-arm angle in [70, 110] closest to
\* 90 (nearest release on ties), and max(0, release - 1) when none qualifies.
C25_UahClosestToHorizontal ==
    RelNonEmpty =>
        ret["uah"].frame =
            UahAsSearched(rel_collect(pose_frames, hand),
                          gaussian_filter1d(
                              rel_theta(rel_collect(pose_frames, hand),
                                        rel_forward(rel_collect(pose_frames, hand))),
                              GaussKernel12),
                          rel_fps(fps_val), ret["release"].frame)

(***************************************************************************)
(* workers/risk: the six risk computations and run_risk_worker             *)
(*                                                                         *)
(* An optional frame (Optional[int]) is NoneI when it is None.  Each       *)
(* computation returns signal_strength in thousandths and confidence in    *)
(* millionths; round(x, 3) is RoundHalfEven on thousandths.                *)
(***************************************************************************)
NoneI == -999

RISK_FLOOR == 150

\* the frames of range(max(0, f - pre), min(len(pose_frames), f + post))
\* whose landmarks are a dict holding every key of K
NamedSamples(fr, f, pre, post, K) ==
    {i \in Max2(0, f - pre)..(Min2(Cardinality(DOMAIN fr), f + post) - 1) :
        fr[i].lm = "dict" /\ K \subseteq fr[i].named.keys}

\* np.percentile(v over S, p), linear interpolation, times 100
PercentileX100(v, S, p) ==
    LET m == Cardinality(S)
        lo == (p * (m - 1)) \div 100
        fr == (p * (m - 1)) % 100
    IN  100 * KthSmallest(v, S, lo)
        + fr * (KthSmallest(v, S, Min2(lo + 1, m - 1)) - KthSmallest(v, S, lo))

\* as Capped, without the min(1.0, .)
Capped_mut(num, den) == RoundHalfEven(1000 * num, den)

\* round(min(1.0, num / den), 3) in thousandths
Capped(num, den) ==
    IF num >= den THEN 1000 ELSE RoundHalfEven(1000 * num, den)

\* round(mean(vis) * 0.7, 3) in millionths, vis in hundredths
VisConfidence(v, S) == 1000 * RoundHalfEven(7 * SumOver(v, S), Cardinality(S))

risk_obj(s, c, note) == [signal_strength |-> s, confidence |-> c, note |-> note]

\* travel = p95 - p5 of min(ankle y) over the samples S
braking_travel(ys, S) ==
    risk_obj(Capped(PercentileX100(ys, S, 95) - PercentileX100(ys, S, 5), 1200),
             1000000, "")

braking_samples(fr, S) ==
    IF Cardinality(S) < 5 THEN risk_obj(0, 0, "Insufficient ankle samples")
    ELSE braking_travel([i \in S |-> Min2(fr[i].named.LEFT_ANKLE.y,
                                          fr[i].named.RIGHT_ANKLE.y)], S)

compute_front_foot_braking_shock(fr, ffc_frame) ==
    IF ffc_frame = NoneI \/ ffc_frame < 0 THEN risk_obj(0, 0, "FFC not available")
    ELSE braking_samples(fr, NamedSamples(fr, ffc_frame, 6, 4, {"LEFT_ANKLE", "RIGHT_ANKLE"}))

\* the spread of twice the mid-hip coordinate c ("x" or "y") over S
hip_spread(fr, S, c) ==
    SetMax({fr[i].named.LEFT_HIP[c] + fr[i].named.RIGHT_HIP[c] : i \in S})
    - SetMin({fr[i].named.LEFT_HIP[c] + fr[i].named.RIGHT_HIP[c] : i \in S})

hip_vis(fr, S) ==
    [i \in S |-> Min2(fr[i].named.LEFT_HIP.v, fr[i].named.RIGHT_HIP.v)]

knee_samples(fr, S) ==
    IF Cardinality(S) < 4 THEN risk_obj(RISK_FLOOR, 0, "Pelvis motion insufficient")
    ELSE risk_obj(Max2(Capped(hip_spread(fr, S, "y"), 80), RISK_FLOOR),
                  VisConfidence(hip_vis(fr, S), S), "")

compute_knee_brace_failure(fr, ffc_frame) ==
    IF ffc_frame = NoneI \/ ffc_frame < 0 THEN risk_obj(RISK_FLOOR, 0, "")
    ELSE knee_samples(fr, NamedSamples(fr, ffc_frame, 5, 8, {"LEFT_HIP", "RIGHT_HIP"}))

RECURSIVE SortedSeq(_)
SortedSeq(S) == IF S = {} THEN << >> ELSE << SetMin(S) >> \o SortedSeq(S \ {SetMin(S)})

\* max |diff(diff(a))| over the shoulder-line angles a
trunk_jerk(a) ==
    SetMax({Abs(a[k + 2] - 2 * a[k + 1] + a[k]) : k \in 1..(Len(a) - 2)})

trunk_angles(fr, idx) == [k \in 1..Len(idx) |-> fr[idx[k]].named.ang]

trunk_samples(fr, S) ==
    IF Cardinality(S) < 5 THEN risk_obj(RISK_FLOOR, 0, "Torso rotation proxy insufficient")
    ELSE risk_obj(Max2(Capped(trunk_jerk(trunk_angles(fr, SortedSeq(S))), 1200), RISK_FLOOR),
                  VisConfidence([i \in S |-> Min2(fr[i].named.LEFT_SHOULDER.v,
                                                  fr[i].named.RIGHT_SHOULDER.v)], S),
                  "")

compute_trunk_rotation_snap(fr, ffc_frame) ==
    IF ffc_frame = NoneI \/ ffc_frame < 0 THEN risk_obj(RISK_FLOOR, 0, "")
    ELSE trunk_samples(fr, NamedSamples(fr, ffc_frame, 6, 6,
                                        {"LEFT_SHOULDER", "RIGHT_SHOULDER"}))

mismatch_samples(fr, S) ==
    IF Cardinality(S) < 4 THEN risk_obj(RISK_FLOOR, 0, "Phase proxy insufficient")
    ELSE risk_obj(
             Max2(Capped(SumOver([i \in S |->
                                    Abs((fr[i].named.RIGHT_HIP.x - fr[i].named.LEFT_HIP.x)
                                        - (fr[i].named.RIGHT_SHOULDER.x
                                           - fr[i].named.LEFT_SHOULDER.x))], S),
                         250 * Cardinality(S)),
                  RISK_FLOOR),
             600000, "")

\* Called with ffc_frame # NoneI (ffc_frame - 6 raises TypeError on None).
compute_hip_shoulder_mismatch(fr, ffc_frame) ==
    mismatch_samples(fr, NamedSamples(fr, ffc_frame, 6, 6,
                                      {"LEFT_HIP", "RIGHT_HIP", "LEFT_SHOULDER",
                                       "RIGHT_SHOULDER"}))

lean_samples(fr, S) ==
    IF Cardinality(S) < 4 THEN risk_obj(RISK_FLOOR, 0, "COM drift insufficient")
    ELSE risk_obj(Max2(Capped(hip_spread(fr, S, "x"), 120), RISK_FLOOR),
                  VisConfidence(hip_vis(fr, S), S), "")

\* Called with bfc_frame # NoneI (bfc_frame - 6 raises TypeError on None).
compute_lateral_trunk_lean(fr, bfc_frame) ==
    lean_samples(fr, NamedSamples(fr, bfc_frame, 6, 6, {"LEFT_HIP", "RIGHT_HIP"}))

(***************************************************************************)
(* workers/risk/foot_line_deviation.py                                     *)
(* Lengths are exact: the catalogue's displacements are axis-aligned or    *)
(* Pythagorean.  An offset is kept as cross(d, p - origin) with d the      *)
(* unnormalised direction, i.e. the code's offset times |d|.               *)
(***************************************************************************)
LEFT_KNEE == 25

LEFT_HEEL == 29

ISqrt(k) == CHOOSE r \in 0..k : r * r = k

Hypot(dx, dy) == ISqrt(dx * dx + dy * dy)

\* _xy(lms, idx) is not None
fld_xy(fr, idx) == fr.lm = "list" /\ idx < fr.len

_cross(a, b) == a.x * b.y - a.y * b.x

Minus(a, b) == XY(a.x - b.x, a.y - b.y)

\* side of the front foot: hand "R" or unknown -> left, hand "L" -> right
fld_front(h) == IF h = "L" THEN "R" ELSE "L"

fld_hand_conf(h) == IF h \in {"R", "L"} THEN 1000 ELSE 350

\* hand = action.get("hand") or ..., stripped and upper-cased; "" when the
\* action carries none
fld_hand(act) == IF Has(act, "hand") THEN act["hand"] ELSE ""

fld_out(s, c, mode) == [signal_strength |-> s, confidence |-> c, note |-> mode]

\* the landmarks read at the bfc frame b and the ffc frame f: back toe B,
\* front toe, heel, ankle and knee, which of them exist, twice the mid-hip
\* travel, and the squared hip width at f
fld_points(b, f, front) ==
    [B        |-> IF front = "L" THEN b.pt.toeR ELSE b.pt.toeL,
     toe      |-> IF front = "L" THEN f.pt.toeL ELSE f.pt.toeR,
     heel     |-> IF front = "L" THEN f.pt.heelL ELSE f.pt.heelR,
     ank      |-> IF front = "L" THEN f.pt.ankL ELSE f.pt.ankR,
     knee     |-> IF front = "L" THEN f.pt.kneeL ELSE f.pt.kneeR,
     has_B_toe |-> fld_xy(b, IF front = "L" THEN RFI ELSE LFI),
     has_F_toe |-> fld_xy(f, IF front = "L" THEN LFI ELSE RFI),
     has_heel |-> fld_xy(f, IF front = "L" THEN LEFT_HEEL ELSE LEFT_HEEL + 1),
     has_ank  |-> fld_xy(f, IF front = "L" THEN LA ELSE RA),
     has_knee |-> fld_xy(f, IF front = "L" THEN LEFT_KNEE ELSE LEFT_KNEE + 1),
     has_mh_b |-> fld_xy(b, LH) /\ fld_xy(b, RH),
     has_mh_f |-> fld_xy(f, LH) /\ fld_xy(f, RH),
     travel   |-> XY(f.pt.hipL.x + f.pt.hipR.x - b.pt.hipL.x - b.pt.hipR.x,
                     f.pt.hipL.y + f.pt.hipR.y - b.pt.hipL.y - b.pt.hipR.y),
     hip_w2   |-> (f.pt.hipR.x - f.pt.hipL.x) * (f.pt.hipR.x - f.pt.hipL.x)
                  + (f.pt.hipR.y - f.pt.hipL.y) * (f.pt.hipR.y - f.pt.hipL.y)]

\* progression direction: mid-hip travel, else back toe -> front toe
fld_dir(p) ==
    IF p.has_mh_b /\ p.has_mh_f /\ p.travel # XY(0, 0) THEN p.travel
    ELSE IF p.has_B_toe /\ p.has_F_toe THEN Minus(p.toe, p.B)
    ELSE XY(0, 0)

\* offsets of toe, heel, ankle and knee from the line through B along d
fld_offsets(p, d) ==
    [toe  |-> _cross(d, Minus(p.toe, p.B)),
     heel |-> _cross(d, Minus(p.heel, p.B)),
     ank  |-> _cross(d, Minus(p.ank, p.B)),
     knee |-> _cross(d, Minus(p.knee, p.B))]

\* scale = |d| * hip_w: the code's normalised offsets are offsets / scale
fld_flags(p, o, scale) ==
    [toe_inward |-> o.toe > 0,
     plant_checks |-> (IF p.has_heel THEN 1 ELSE 0) + (IF p.has_ank THEN 1 ELSE 0),
     plant_votes |-> (IF p.has_heel /\ ((o.heel > 0) = (o.toe > 0)) THEN 1 ELSE 0)
                     + (IF p.has_ank /\ ((o.ank > 0) = (o.toe > 0)) THEN 1 ELSE 0),
     toe_only_cross |-> /\ o.toe > 0
                        /\ IF p.has_heel THEN o.heel <= 0
                           ELSE p.has_ank /\ o.ank <= 0,
     \* collapse_norm >= 0.035
     has_collapse |-> /\ p.has_knee /\ p.has_ank
                      /\ 1000 * Abs(o.knee - o.ank) >= 35 * scale
                      /\ (o.knee > 0) = (o.toe > 0)
                      /\ (o.ank > 0) = (o.toe > 0)]

\* the mode decided on partial agreement (one vote) instead of strict
fld_inward_mut(g) ==
    /\ g.toe_inward
    /\ (\/ (g.plant_checks > 0 /\ g.plant_votes >= 1)
        \/ g.has_collapse)

fld_inward(g) ==
    /\ g.toe_inward
    /\ (\/ (g.plant_checks > 0 /\ g.plant_votes >= Max2(1, g.plant_checks))
        \/ g.has_collapse)

\* median of |toe|, |heel|, |ankle| offsets over the landmarks that exist
fld_off_med(p, o) ==
    KthSmallest([k \in 0..2 |-> IF k = 0 THEN Abs(o.toe)
                                ELSE IF k = 1 THEN Abs(o.heel) ELSE Abs(o.ank)],
                {0} \cup (IF p.has_heel THEN {1} ELSE {}) \cup (IF p.has_ank THEN {2} ELSE {}),
                Cardinality({0} \cup (IF p.has_heel THEN {1} ELSE {})
                            \cup (IF p.has_ank THEN {2} ELSE {})) \div 2)

\* offset_norm = num / (100 * scale) against 0.08 and 0.15
fld_signal(inward, num, scale) ==
    IF ~inward
    THEN IF num <= 8 * scale THEN 100 ELSE IF num <= 15 * scale THEN 180 ELSE 250
    ELSE IF num <= 8 * scale THEN 200 ELSE IF num <= 15 * scale THEN 450 ELSE 700

\* hand_conf * geom_conf, geom_conf the product of three factors
fld_confidence(p, g, inward, hand_conf) ==
    (hand_conf
     * (IF ~p.has_heel /\ ~p.has_ank THEN 55 ELSE 100)
     * (IF ~p.has_knee /\ inward THEN 75 ELSE 100)
     * (IF g.toe_only_cross /\ ~inward THEN 70 ELSE 100)) \div 1000

fld_result(p, g, inward, off_med, scale, hand_conf) ==
    fld_out(fld_signal(inward,
                       off_med * (IF g.toe_only_cross /\ ~inward THEN 35
                                  ELSE IF g.has_collapse /\ inward THEN 115 ELSE 100),
                       scale),
            fld_confidence(p, g, inward, hand_conf),
            IF inward THEN "INWARD_CROSS" ELSE "OUTWARD_STEP")

fld_flagged(p, o, g, scale, hand_conf) ==
    fld_result(p, g, fld_inward(g), fld_off_med(p, o), scale, hand_conf)

fld_scaled(p, o, scale, hand_conf) ==
    fld_flagged(p, o, fld_flags(p, o, scale), scale, hand_conf)

fld_score(p, d, hand_conf) ==
    fld_scaled(p, fld_offsets(p, d), Hypot(d.x, d.y) * ISqrt(p.hip_w2), hand_conf)

fld_directed(p, d, hand_conf) ==
    IF d = XY(0, 0) \/ ~p.has_B_toe \/ ~p.has_mh_f \/ ~p.has_F_toe
    THEN fld_out(0, 0, "OUTWARD_STEP")
    ELSE IF p.hip_w2 = 0 THEN fld_out(0, 0, "OUTWARD_STEP")
    ELSE fld_score(p, d, hand_conf)

fld_located(p, hand_conf) == fld_directed(p, fld_dir(p), hand_conf)

fld_handed(fr, n, bfc_frame, ffc_frame, h) ==
    fld_located(fld_points(fr[Max2(0, Min2(bfc_frame, n - 1))],
                           fr[Max2(0, Min2(ffc_frame, n - 1))], fld_front(h)),
                fld_hand_conf(h))

compute_foot_line_deviation(fr, bfc_frame, ffc_frame, act) ==
    IF bfc_frame = NoneI \/ ffc_frame = NoneI THEN fld_out(0, 0, "OUTWARD_STEP")
    ELSE IF Cardinality(DOMAIN fr) <= 0 THEN fld_out(0, 0, "OUTWARD_STEP")
    ELSE fld_handed(fr, Cardinality(DOMAIN fr), bfc_frame, ffc_frame, fld_hand(act))

(***************************************************************************)
(* workers/risk/risk_worker.py and workers/risk/benchmarks.py              *)
(***************************************************************************)
RISK_IDS ==
    << "front_foot_braking_shock", "knee_brace_failure", "trunk_rotation_snap",
       "hip_shoulder_mismatch", "lateral_trunk_lean", "foot_line_deviation" >>

\* _event_frame(events, key)
_event_frame(ev, key) == IF Has(ev, key) THEN ev[key].frame ELSE NoneI

\* _emit without the floor
_emit_mut(obj, risk_id) ==
    [risk_id |-> risk_id, signal_strength |-> obj.signal_strength,
     confidence |-> obj.confidence, note |-> obj.note]

\* _emit: signal_strength = max(signal_strength, floor), confidence as given
_emit(obj, risk_id) ==
    [risk_id |-> risk_id,
     signal_strength |-> Max2(obj.signal_strength, RISK_FLOOR),
     confidence |-> obj.confidence, note |-> obj.note]

_percentile_from_signal_strength(v) ==
    IF v >= 600 THEN 95 ELSE IF v >= 400 THEN 85 ELSE IF v >= 250 THEN 70 ELSE 50

band_from_percentile(p) ==
    IF p <= 25 THEN 1 ELSE IF p <= 75 THEN 2 ELSE IF p <= 90 THEN 3
    ELSE IF p <= 97 THEN 4 ELSE 5

\* the visibility tier without its last branch
impact_visibility_from_band_mut(band) == IF band <= 2 THEN "low" ELSE "medium"

impact_visibility_from_band(band) ==
    IF band <= 2 THEN "low" ELSE IF band = 3 THEN "medium" ELSE "high"

\* the deviation block and the visibility of the impact block
deviation_block(r, percentile, band) ==
    r @@ [percentile |-> percentile, band |-> band,
          visibility |-> impact_visibility_from_band(band)]

deviation_of(r, percentile) ==
    deviation_block(r, percentile, band_from_percentile(percentile))

\* attach_deviation_and_impact: the payload with its deviation block
attach_deviation_and_impact(r) ==
    deviation_of(r, _percentile_from_signal_strength(r.signal_strength))

\* the list `raw` is built in order, so the first computation that raises
\* ends the call
risk_raw(fr, ffc, bfc, act) ==
    IF ffc = NoneI \/ bfc = NoneI
    THEN [raised |-> "TypeError", out |-> << >>]
    ELSE [raised |-> "none",
          out |-> << attach_deviation_and_impact(
                         _emit(compute_front_foot_braking_shock(fr, ffc), RISK_IDS[1])),
                     attach_deviation_and_impact(
                         _emit(compute_knee_brace_failure(fr, ffc), RISK_IDS[2])),
                     attach_deviation_and_impact(
                         _emit(compute_trunk_rotation_snap(fr, ffc), RISK_IDS[3])),
                     attach_deviation_and_impact(
                         _emit(compute_hip_shoulder_mismatch(fr, ffc), RISK_IDS[4])),
                     attach_deviation_and_impact(
                         _emit(compute_lateral_trunk_lean(fr, bfc), RISK_IDS[5])),
                     attach_deviation_and_impact(
                         _emit(compute_foot_line_deviation(fr, bfc, ffc, act),
                               RISK_IDS[6])) >>]

run_risk_worker(pf, ev, act) ==
    risk_raw([i \in DOMAIN pf |-> F(pf, i)], _event_frame(ev, "ffc"),
             _event_frame(ev, "bfc"), act)

(***************************************************************************)
(* run_risk_worker as a function of its arguments                          *)
(***************************************************************************)
RiskPalette == {"Null", "Quiet", "Level", "Down", "Named", "NamedDip"}

RiskClips == ThreePhase(MaxFrames, RiskPalette)

Ev(f) == [frame |-> f]

\* events maps: bfc and ffc each missing or present; release and uah both
\* missing or both present
RiskEvents ==
    { (IF b = NoneI THEN EmptyMap ELSE "bfc" :> Ev(b))
      @@ (IF f = NoneI THEN EmptyMap ELSE "ffc" :> Ev(f))
      @@ (IF late THEN ("uah" :> Ev(MaxFrames - 2)) @@ ("release" :> Ev(MaxFrames - 1))
          ELSE EmptyMap) :
        b \in {NoneI, 0, 3}, f \in {NoneI, 2, 6}, late \in BOOLEAN }

RiskActions == {EmptyMap, "hand" :> "R", "hand" :> "L"}

InitRisk ==
    /\ pc = "risk_call"
    /\ pose_frames \in RiskClips
    /\ hand = "R"
    /\ fps_val = 0
    /\ args = NoArgs
    /\ events \in RiskEvents
    /\ action \in RiskActions
    /\ risks = << >>
    /\ elbow_signal = << >>
    /\ elbow = EmptyMap
    /\ ret = EmptyMap
    /\ raised = "none"

\* the list returned, or the exception that escaped
RiskReturn(r) == risks' = r.out /\ raised' = r.raised

CallRunRiskWorker ==
    /\ pc = "risk_call"
    /\ RiskReturn(run_risk_worker(pose_frames, events, action))
    /\ pc' = "risk_done"
    /\ UNCHANGED << pose_frames, hand, fps_val, args, events, action,
                    elbow_signal, elbow, ret >>

NextRisk == CallRunRiskWorker

SpecRisk == InitRisk /\ [][NextRisk]_vars

\* C4: run_risk_worker returns exactly six entries for every events map,
\* including maps that lack ffc, bfc, uah or release; an entry whose anchor
\* is missing carries the floor 0.15 and confidence 0.
C4_SixEntriesAlways ==
    pc = "risk_done" =>
        /\ raised = "none"
        /\ Len(risks) = 6
        /\ (~Has(events, "ffc") =>
               \A k \in 1..4 : risks[k].signal_strength = RISK_FLOOR
                               /\ risks[k].confidence = 0)
        /\ (~Has(events, "bfc") =>
               \A k \in 5..6 : risks[k].signal_strength = RISK_FLOOR
                               /\ risks[k].confidence = 0)

\* C5: every emitted risk entry has 0.15 <= signal_strength <= 1.0 and
\* 0 <= confidence <= 1.
C5_RiskBounds ==
    pc = "risk_done" =>
        \A k \in DOMAIN risks :
            /\ RISK_FLOOR <= risks[k].signal_strength
            /\ risks[k].signal_strength <= 1000
            /\ 0 <= risks[k].confidence
            /\ risks[k].confidence <= 1000000

\* all six entries emitted, one at the cap, one lifted to the floor, one in
\* between
C5_Witness ==
    /\ pc = "risk_done"
    /\ Len(risks) = 6
    /\ risks[3].signal_strength = 1000
    /\ risks[3].confidence > 0
    /\ risks[6].signal_strength = RISK_FLOOR
    /\ risks[1].signal_strength > RISK_FLOOR
    /\ risks[1].signal_strength < 1000

\* a frame as the loader writes it for a detected pose: a list of 33
\* landmark records, every landmark the stages read well visible
LoaderFrame(f) ==
    /\ f.lm = "list" /\ f.len = 33
    /\ f.vHips >= 90 /\ f.vFeet >= 90
    /\ \A h \in {"R", "L"} :
           f.arm[h].vs >= 90 /\ f.arm[h].ve >= 90 /\ f.arm[h].vw >= 90

FullyVisibleClip ==
    \A i \in DOMAIN pose_frames : LoaderFrame(F(pose_frames, i))

AllFourAnchors ==
    \A k \in {"bfc", "ffc", "uah", "release"} : Has(events, k)

\* C20: for a clip with fully visible landmarks in the loader's format and
\* with all four anchors detected, each of the six risks emitted by
\* run_risk_worker has confidence > 0.
C20_VisibleClipConfident ==
    (pc = "risk_done" /\ FullyVisibleClip /\ AllFourAnchors)
        => /\ Len(risks) = 6
           /\ \A k \in DOMAIN risks : risks[k].confidence > 0

\* C28: the deviation band of each risk is determined by its
\* signal_strength, lies in 1..5 and does not decrease as signal_strength
\* grows; the visibility tier is low for bands 1-2, medium for band 3 and
\* high for bands 4-5.
C28_BandMonotoneAndTiered ==
    pc = "risk_done" =>
        \A k \in DOMAIN risks :
            /\ risks[k].band \in 1..5
            /\ \A j \in DOMAIN risks :
                   risks[k].signal_strength <= risks[j].signal_strength
                       => risks[k].band <= risks[j].band
            /\ risks[k].visibility =
                   (IF risks[k].band \in {1, 2} THEN "low"
                    ELSE IF risks[k].band = 3 THEN "medium" ELSE "high")

\* one run with a risk at the floor and a risk at the cap: low and high tiers
C28_Witness ==
    /\ pc = "risk_done"
    /\ Len(risks) = 6
    /\ \E k, j \in DOMAIN risks :
          /\ risks[k].signal_strength < risks[j].signal_strength
          /\ risks[k].band < risks[j].band
          /\ risks[k].visibility = "low" /\ risks[j].visibility = "high"

(***************************************************************************)
(* workers/elbow/elbow_legality.py                                         *)
(*   angles are hundredths of a degree; the signals drawn below hold whole *)
(*   degrees, so every median and every difference is exact                *)
(***************************************************************************)
THRESH_LEGAL == 1800

THRESH_BORDERLINE == 2200

MIN_SAMPLES_mut == 1

MIN_SAMPLES == 2

IDEAL_SAMPLES == 5

MAX_SAMPLES == 7

UAH_BASELINE_MAX_FRAMES == 2

ANGLE_LO == 0

ANGLE_HI == 18000

\* frame -> angle of the valid items; a later item overwrites an earlier one
_build_angle_map(sig) ==
    LET ok == {k \in 1..Len(sig) : /\ sig[k].frame # NoneI
                                   /\ sig[k].angle_deg # NoneI
                                   /\ sig[k].valid}
        fr == {sig[k].frame : k \in ok}
    IN  [f \in fr |-> sig[SetMax({k \in ok : sig[k].frame = f})].angle_deg]

\* [angle_map[f] for f in range(start, end + 1) if f in angle_map]
window_vals(amap, start, end) ==
    LET fs == SortedSeq({f \in start..end : f \in DOMAIN amap})
    IN  [k \in 1..Len(fs) |-> amap[fs[k]]]

\* median of a non-empty list
_median(vals) ==
    LET n == Len(vals)
        mid == n \div 2
    IN  IF n % 2 = 1 THEN KthSmallest(vals, 1..n, mid)
        ELSE (KthSmallest(vals, 1..n, mid - 1) + KthSmallest(vals, 1..n, mid)) \div 2

_percentile90(vals) ==
    LET n == Len(vals)
        idx == RoundHalfEven(9 * (n - 1), 10)
    IN  KthSmallest(vals, 1..n, Max2(0, Min2(idx, n - 1)))

_mad(vals, med) == _median([k \in 1..Len(vals) |-> Abs(vals[k] - med)])

InRange(v) == ANGLE_LO <= v /\ v <= ANGLE_HI

\* MAD_K = 3.5: |v - med| <= 3.5 * mad
MadKeeps(v, med, mad) == 10 * Abs(v - med) <= 35 * mad

_robust_filter(vals) ==
    LET in_range == SelectSeq(vals, InRange)
    IN  IF Len(in_range) < MIN_SAMPLES THEN in_range
        ELSE LET med == _median(in_range)
                 mad == _mad(in_range, med)
                 Keep(v) == MadKeeps(v, med, mad)
             IN  IF mad = 0 THEN in_range ELSE SelectSeq(in_range, Keep)

_adaptive_sample(vals, max_samples) ==
    LET n == Len(vals)
        stride == Max2(1, n \div max_samples)
        m == (n + stride - 1) \div stride
        sampled == [k \in 1..m |-> vals[(k - 1) * stride + 1]]
    IN  IF n <= max_samples THEN vals
        ELSE IF sampled[m] # vals[n] THEN Append(sampled, vals[n])
        ELSE sampled

InsufficientData == [verdict |-> "INSUFFICIENT_DATA", extension_deg |-> NoneI, valid |-> 0]

\* the verdict, the extension and the sample count of the returned dict
elbow_verdict(filtered, start, end, fps) ==
    LET win_len == Len(filtered)
        early_n == Max2(1, Min2(UAH_BASELINE_MAX_FRAMES, (3 * win_len + 9) \div 10))
        baseline == _median(SubSeq(filtered, 1, early_n))
        peak == IF win_len >= 6 THEN _percentile90(filtered)
                ELSE SetMax({filtered[k] : k \in 1..win_len})
        extension == Max2(0, peak - baseline)
        verdict == IF extension < THRESH_LEGAL THEN "LEGAL"
                   ELSE IF extension <= THRESH_BORDERLINE THEN "BORDERLINE"
                   ELSE "ILLEGAL"
        \* win_sec < IDEAL_WINDOW_SEC (0.10 s)
        low_conf == win_len < IDEAL_SAMPLES \/ 10 * (end - start + 1) < fps
    IN  [verdict |-> IF low_conf THEN verdict \o "_LOW_CONFIDENCE" ELSE verdict,
         extension_deg |-> extension,
         valid |-> win_len]

evaluate_elbow_legality(sig, ev, fps) ==
    IF Len(sig) = 0 \/ fps <= 0 THEN InsufficientData
    ELSE IF ~Has(ev, "uah") \/ ~Has(ev, "release") THEN InsufficientData
    ELSE LET uah == ev["uah"].frame
             rel == ev["release"].frame
             amap == _build_angle_map(sig)
             start == uah
             end == Max2(uah, rel - 1)
             filtered == _adaptive_sample(_robust_filter(window_vals(amap, start, end)),
                                          MAX_SAMPLES)
         IN  IF rel <= uah THEN InsufficientData
             ELSE IF DOMAIN amap = {} THEN InsufficientData
             ELSE IF Len(filtered) < MIN_SAMPLES THEN InsufficientData
             ELSE elbow_verdict(filtered, start, end, fps)

(***************************************************************************)
(* evaluate_elbow_legality over bounded signals                            *)
(***************************************************************************)
MaxSignal == 14

\* per-frame items of the signal: invalid (angle None), an angle flagged
\* invalid, whole-degree angles, and an angle outside ANGLE_RANGE
ElbowItems ==
    [Bad     |-> [angle_deg |-> NoneI, valid |-> FALSE],
     Flagged |-> [angle_deg |-> 17500, valid |-> FALSE],
     A150    |-> [angle_deg |-> 15000, valid |-> TRUE],
     A155    |-> [angle_deg |-> 15500, valid |-> TRUE],
     A157    |-> [angle_deg |-> 15700, valid |-> TRUE],
     A175    |-> [angle_deg |-> 17500, valid |-> TRUE],
     A200    |-> [angle_deg |-> 20000, valid |-> TRUE]]

ElbowPalette == DOMAIN ElbowItems

SignalOf(c) ==
    [k \in 1..NFrames(c) |-> [frame |-> k - 1,
                              angle_deg |-> ElbowItems[c[k - 1]].angle_deg,
                              valid |-> ElbowItems[c[k - 1]].valid]]

ElbowSignals == {<< >>} \cup {SignalOf(c) : c \in ThreePhase(MaxSignal, ElbowPalette)}

ElbowEvents ==
    { (IF u = NoneI THEN EmptyMap ELSE "uah" :> Ev(u))
      @@ (IF r = NoneI THEN EmptyMap ELSE "release" :> Ev(r)) :
        u \in {NoneI, 0, 3}, r \in {NoneI, 2, 5, MaxSignal} }

ElbowFps == {0, 25, 100}

InitElbow ==
    /\ pc = "elbow_call"
    /\ pose_frames = << >>
    /\ hand = "R"
    /\ fps_val \in ElbowFps
    /\ args = NoArgs
    /\ events \in ElbowEvents
    /\ action = EmptyMap
    /\ risks = << >>
    /\ elbow_signal \in ElbowSignals
    /\ elbow = EmptyMap
    /\ ret = EmptyMap
    /\ raised = "none"

CallEvaluateElbowLegality ==
    /\ pc = "elbow_call"
    /\ elbow' = evaluate_elbow_legality(elbow_signal, events, fps_val)
    /\ pc' = "elbow_done"
    /\ UNCHANGED << pose_frames, hand, fps_val, args, events, action, risks,
                    elbow_signal, ret, raised >>

NextElbow == CallEvaluateElbowLegality

SpecElbow == InitElbow /\ [][NextElbow]_vars

\* the valid in-range samples of the signal at the frames of [uah, release-1]
WindowSamples ==
    IF ~Has(events, "uah") \/ ~Has(events, "release") THEN {}
    ELSE {k \in 1..Len(elbow_signal) :
            /\ elbow_signal[k].valid
            /\ elbow_signal[k].angle_deg # NoneI
            /\ elbow_signal[k].angle_deg >= 0
            /\ elbow_signal[k].angle_deg <= 18000
            /\ elbow_signal[k].frame >= events["uah"].frame
            /\ elbow_signal[k].frame <= events["release"].frame - 1}

\* C8: whenever an extension is computed it is >= 0 and the verdict is LEGAL
\* below 18 degrees, BORDERLINE from 18 to 22 and ILLEGAL above 22, whatever
\* the sample count and the window duration.
C8_VerdictFromExtension ==
    (pc = "elbow_done" /\ elbow.extension_deg # NoneI) =>
        /\ elbow.extension_deg >= 0
        /\ elbow.verdict = (IF elbow.extension_deg < 1800 THEN "LEGAL"
                            ELSE IF elbow.extension_deg <= 2200 THEN "BORDERLINE"
                            ELSE "ILLEGAL")

\* the samples that survive the range/MAD filter and the adaptive sampling
ElbowSurvivors ==
    IF ~Has(events, "uah") \/ ~Has(events, "release") THEN << >>
    ELSE _adaptive_sample(
             _robust_filter(window_vals(_build_angle_map(elbow_signal),
                                        events["uah"].frame,
                                        Max2(events["uah"].frame, events["release"].frame - 1))),
             MAX_SAMPLES)

C10_NeverInsufficientWithTwoSamples ==
    (/\ pc = "elbow_done"
     /\ Has(events, "uah") /\ Has(events, "release")
     /\ Cardinality(WindowSamples) >= 2) =>
        /\ Len(ElbowSurvivors) >= 2
        /\ elbow.verdict # "INSUFFICIENT_DATA"

\* C17: a stage given an fps that is missing, zero or negative computes as
\* if fps were 25 and returns no insufficient-data result because of the fps:
\* evaluate_elbow_legality called with fps <= 0 returns what it returns with
\* fps = 25.
C17_FpsDefaultsTo25 ==
    (pc = "elbow_done" /\ fps_val <= 0)
        => elbow = evaluate_elbow_legality(elbow_signal, events, REL_DEFAULT_FPS)

\* the samples of the signal at the frames of the UAH..RELEASE window
ElbowWindow ==
    IF ~Has(events, "uah") \/ ~Has(events, "release") THEN << >>
    ELSE window_vals(_build_angle_map(elbow_signal), events["uah"].frame,
                     Max2(events["uah"].frame, events["release"].frame - 1))

\* every sample of kept is in range and within MAD_K * MAD of the median of
\* the in-range samples
AllWithinMad(kept, in_range) ==
    \A k \in DOMAIN kept :
        /\ InRange(kept[k])
        /\ MadKeeps(kept[k], _median(in_range), _mad(in_range, _median(in_range)))

\* C26: whenever the window holds at least 2 in-range samples, every sample
\* _robust_filter returns lies in [0, 180] and within 3.5 x MAD of the
\* median of the in-range samples: a single spike among otherwise equal
\* samples is removed.
C26_FilterRejectsOutliers ==
    (pc = "elbow_done" /\ fps_val > 0 /\ Len(SelectSeq(ElbowWindow, InRange)) >= 2)
        => AllWithinMad(_robust_filter(ElbowWindow), SelectSeq(ElbowWindow, InRange))

\* the number of baseline samples of a window of n samples
EarlyCount(n) == Max2(1, Min2(UAH_BASELINE_MAX_FRAMES, (3 * n + 9) \div 10))

\* the 90th percentile of vals, or its maximum when the window has fewer
\* than 6 samples
PeakOf(vals, win_len) ==
    IF win_len >= 6 THEN _percentile90(vals)
    ELSE SetMax({vals[k] : k \in DOMAIN vals})

\* extension with the baseline from the earliest samples and the peak from
\* the samples after them
ExtensionFromRemaining(f) ==
    Max2(0, PeakOf(SubSeq(f, EarlyCount(Len(f)) + 1, Len(f)), Len(f))
            - _median(SubSeq(f, 1, EarlyCount(Len(f)))))

\* C27: the baseline is the median of the earliest 1 or 2 samples of the
\* filtered window and the peak is the 90th percentile (the maximum below 6
\* samples) of the samples after the baseline samples only; extension_deg is
\* max(0, peak - baseline).
C27_PeakFromRemainingSamples ==
    (pc = "elbow_done" /\ elbow.extension_deg # NoneI)
        => elbow.extension_deg = ExtensionFromRemaining(ElbowSurvivors)

\* a is b with some elements left out, the order kept
RECURSIVE IsSubsequence(_, _)
IsSubsequence(a, b) ==
    IF a = << >> THEN TRUE
    ELSE IF b = << >> THEN FALSE
    ELSE IF Head(a) = Head(b) THEN IsSubsequence(Tail(a), Tail(b))
    ELSE IsSubsequence(a, Tail(b))

\* sampled keeps the order of vals, starts with its first sample, ends with
\* the value of its last sample and has at most max_samples + 1 elements
SampledWithin(sampled, vals, max_samples) ==
    /\ IsSubsequence(sampled, vals)
    /\ Len(sampled) <= max_samples + 1
    /\ vals # << >> =>
          /\ sampled # << >>
          /\ sampled[1] = vals[1]
          /\ sampled[Len(sampled)] = vals[Len(vals)]

\* C30: _adaptive_sample returns an order-preserving subsequence of its
\* input that keeps the first sample, ends with the last sample's value and
\* has at most max_samples + 1 elements (MAX_SAMPLES = 7 in
\* evaluate_elbow_legality), for every input length.
C30_SampleAtMostMaxPlusOne ==
    (pc = "elbow_done" /\ fps_val > 0)
        => /\ SampledWithin(ElbowSurvivors, _robust_filter(ElbowWindow), MAX_SAMPLES)
           /\ elbow.valid <= MAX_SAMPLES + 1

(***************************************************************************)
(* workers/action/geometry.py, workers/action/foot_orientation.py,         *)
(* common/signal_quality.py, workers/action/action_classifier.py           *)
(*   vectors are pairs of integers in a common scale (norm() only rescales *)
(*   them); angles are whole degrees (floor).  A vector or an angle that   *)
(*   is None is NoVec / NoneI.                                             *)
(***************************************************************************)
GEO_VIS_MIN == 50

NoVec == << 0, 0 >>

\* tan(k degrees) * 10000 for k = 1..89
TanE4 ==
    <<175, 349, 524, 699, 875, 1051, 1228, 1405, 1584, 1763,
       1944, 2126, 2309, 2493, 2679, 2867, 3057, 3249, 3443, 3640,
       3839, 4040, 4245, 4452, 4663, 4877, 5095, 5317, 5543, 5774,
       6009, 6249, 6494, 6745, 7002, 7265, 7536, 7813, 8098, 8391,
       8693, 9004, 9325, 9657, 10000, 10355, 10724, 11106, 11504, 11918,
       12349, 12799, 13270, 13764, 14281, 14826, 15399, 16003, 16643, 17321,
       18040, 18807, 19626, 20503, 21445, 22460, 23559, 24751, 26051, 27475,
       29042, 30777, 32709, 34874, 37321, 40108, 43315, 47046, 51446, 56713,
       63138, 71154, 81443, 95144, 114301, 143007, 190811, 286363, 572900 >>

\* angle_deg: the acute angle between v1 and v2, None when either is None
angle_deg(v1, v2) ==
    LET dot == Abs(v1[1] * v2[1] + v1[2] * v2[2])
        cross == Abs(v1[1] * v2[2] - v1[2] * v2[1])
    IN  IF v1 = NoVec \/ v2 = NoVec THEN NoneI
        ELSE IF dot = 0 THEN 90
        ELSE Cardinality({k \in 1..89 : TanE4[k] * dot <= 10000 * cross})

\* landmarks_visible(frame, idxs) for a frame record: the landmarks are a
\* list that reaches every index, and every point has visibility >= 0.5
lm_reaches(fr, top) == fr.lm = "list" /\ top < fr.len

hips_visible(fr) == lm_reaches(fr, RH) /\ fr.vHips >= GEO_VIS_MIN

feet_visible(fr) == lm_reaches(fr, RFI) /\ fr.vFeet >= GEO_VIS_MIN

shoulders_hips_visible(fr) ==
    /\ hips_visible(fr)
    /\ fr.arm.L.vs >= GEO_VIS_MIN
    /\ fr.arm.R.vs >= GEO_VIS_MIN

\* upper median of the non-zero displacements between consecutive centres
axis_of(cf, cx, cy) ==
    LET m == Len(cf)
        steps == {k \in 2..m : cx[cf[k]] # cx[cf[k - 1]] \/ cy[cf[k]] # cy[cf[k - 1]]}
        dx == [k \in steps |-> cx[cf[k]] - cx[cf[k - 1]]]
        dy == [k \in steps |-> cy[cf[k]] - cy[cf[k - 1]]]
        mid == Cardinality(steps) \div 2
    IN  IF m < 4 THEN NoVec
        ELSE IF Cardinality(steps) < 2 THEN NoVec
        ELSE << KthSmallest(dx, steps, mid), KthSmallest(dy, steps, mid) >>

\* compute_batsman_axis over the frame records fr (twice the hip centre)
compute_batsman_axis(fr, bfc_frame) ==
    IF bfc_frame = NoneI \/ DOMAIN fr = {} THEN NoVec
    ELSE axis_of(SortedSeq({f \in Max2(0, bfc_frame - 12)..Min2(Cardinality(DOMAIN fr) - 1, bfc_frame + 2) :
                               hips_visible(fr[f])}),
                 [f \in DOMAIN fr |-> fr[f].pt.hipL.x + fr[f].pt.hipR.x],
                 [f \in DOMAIN fr |-> fr[f].pt.hipL.y + fr[f].pt.hipR.y])

\* ang < 35, ang > 65 (no vector with integer components makes 65 degrees
\* exactly, so ang > 65 iff floor(ang) >= 65)
intent_band(ang) ==
    IF ang < 35 THEN "SIDE_ON" ELSE IF ang >= 65 THEN "FRONT_ON" ELSE "SEMI_OPEN"

\* twice the vector from the ankle to the midpoint of heel and toe
foot_vec(ankle, heel, toe) ==
    << heel.x + toe.x - 2 * ankle.x, heel.y + toe.y - 2 * ankle.y >>

\* compute_foot_intent: the angle of the front foot at BFC, NoneI for None
compute_foot_intent(frame, h, axis) ==
    IF ~feet_visible(frame) THEN NoneI
    ELSE IF h = "R"
         THEN angle_deg(foot_vec(frame.pt.ankL, frame.pt.heelL, frame.pt.toeL), axis)
         ELSE angle_deg(foot_vec(frame.pt.ankR, frame.pt.heelR, frame.pt.toeR), axis)

shoulder_vec(frame) ==
    << frame.pt.shL.x - frame.pt.shR.x, frame.pt.shL.y - frame.pt.shR.y >>

hip_vec(frame) ==
    << frame.pt.hipL.x - frame.pt.hipR.x, frame.pt.hipL.y - frame.pt.hipR.y >>

HIP_OPEN_LIMIT == 55

HIP_DRIFT_LIMIT == 12

UnknownAction == [intent |-> "null", action |-> "UNKNOWN", confidence |-> 0]

Lower(intent) ==
    IF intent = "SIDE_ON" THEN "side_on"
    ELSE IF intent = "FRONT_ON" THEN "front_on" ELSE "semi_open"

\* floor of the square root, for k <= 9000 * 9000
FloorSqrt(k) == CHOOSE r \in 0..9000 : r * r <= k /\ k < (r + 1) * (r + 1)

\* statistics.median of the values a[f], f \in S (whole degrees, floor)
median_deg(a, S) ==
    LET m == Cardinality(S)
    IN  IF m % 2 = 1 THEN KthSmallest(a, S, m \div 2)
        ELSE (KthSmallest(a, S, m \div 2 - 1) + KthSmallest(a, S, m \div 2)) \div 2

\* statistics.pstdev of the values a[f], f \in S, in hundredths of a degree
pstdev_e2(a, S) ==
    LET m == Cardinality(S)
        s1 == SumOver(a, S)
        s2 == SumOver([f \in S |-> a[f] * a[f]], S)
    IN  FloorSqrt((10000 * (m * s2 - s1 * s1)) \div (m * m))

\* the frames of range(bfc - 3, bfc + 4) that contribute a shoulder angle
shoulder_frames(fr, bfc_frame) ==
    {f \in (bfc_frame - 3)..(bfc_frame + 3) :
        /\ f >= 0 /\ f < Cardinality(DOMAIN fr)
        /\ shoulders_hips_visible(fr[f])
        /\ shoulder_vec(fr[f]) # NoVec}

\* shoulder intent and confidence (hundredths), "null" below 3 angles
shoulder_intent(a, S) ==
    IF Cardinality(S) < 3 THEN [intent |-> "null", confidence |-> 0]
    ELSE [intent |-> intent_band(median_deg(a, S)),
          confidence |-> PyRound(100 * Min2(7, Cardinality(S))
                                     * Max2(0, 2000 - pstdev_e2(a, S)),
                                 7 * 2000)]

\* lm = pose_frames[f]["landmarks"]; lm[RH], lm[LH]: the exception raised
hip_lookup(frame) ==
    IF frame.lm = "null" THEN "TypeError"
    ELSE IF frame.lm = "dict" THEN "KeyError"
    ELSE IF frame.len <= RH THEN "IndexError"
    ELSE "none"

\* structural MIXED detection and the returned dict (hip_ang_bfc > 55 iff
\* floor(hip_ang_bfc) >= 55, as no integer vector makes 55 degrees exactly;
\* the drift is compared in whole degrees)
classify_mixed(intent, confidence, hip_ang_bfc, hip_ang_ffc) ==
    LET case1 == intent = "SIDE_ON" /\ hip_ang_bfc # NoneI /\ hip_ang_bfc >= HIP_OPEN_LIMIT
        case2 == /\ hip_ang_bfc # NoneI /\ hip_ang_ffc # NoneI
                 /\ hip_ang_ffc - hip_ang_bfc > HIP_DRIFT_LIMIT
    IN  [intent |-> Lower(intent),
         action |-> IF case1 \/ case2 THEN "MIXED" ELSE intent,
         confidence |-> confidence]

classify_final(fr, bfc_frame, ffc_frame, axis, intent, confidence) ==
    IF intent = "null" THEN [raised |-> "none", out |-> UnknownAction]
    ELSE IF hip_lookup(fr[bfc_frame]) # "none"
         THEN [raised |-> hip_lookup(fr[bfc_frame]), out |-> UnknownAction]
    ELSE IF ffc_frame # NoneI /\ hip_lookup(fr[ffc_frame]) # "none"
         THEN [raised |-> hip_lookup(fr[ffc_frame]), out |-> UnknownAction]
    ELSE [raised |-> "none",
          out |-> classify_mixed(intent, confidence,
                                 angle_deg(hip_vec(fr[bfc_frame]), axis),
                                 IF ffc_frame = NoneI THEN NoneI
                                 ELSE angle_deg(hip_vec(fr[ffc_frame]), axis))]

\* final intent: the foot intent when there is one, else the shoulder intent
classify_intent(fr, bfc_frame, ffc_frame, axis, foot_ang, sh) ==
    IF foot_ang # NoneI
    THEN classify_final(fr, bfc_frame, ffc_frame, axis, intent_band(foot_ang), 100)
    ELSE classify_final(fr, bfc_frame, ffc_frame, axis, sh.intent, sh.confidence)

classify_axis(fr, h, bfc_frame, ffc_frame, axis, S) ==
    IF axis = NoVec THEN [raised |-> "none", out |-> UnknownAction]
    ELSE classify_intent(fr, bfc_frame, ffc_frame, axis,
                         compute_foot_intent(fr[bfc_frame], h, axis),
                         shoulder_intent([f \in S |-> angle_deg(shoulder_vec(fr[f]), axis)], S))

classify_frames(fr, h, bfc_frame, ffc_frame) ==
    classify_axis(fr, h, bfc_frame, ffc_frame, compute_batsman_axis(fr, bfc_frame),
                  shoulder_frames(fr, bfc_frame))

\* classify_action for bfc_frame None or a frame of the clip
classify_action(pf, h, bfc_frame, ffc_frame) ==
    IF bfc_frame = NoneI THEN [raised |-> "none", out |-> UnknownAction]
    ELSE classify_frames([i \in DOMAIN pf |-> F(pf, i)], h, bfc_frame, ffc_frame)

(***************************************************************************)
(* workers/elbow/elbow_signal.py                                           *)
(***************************************************************************)
R_THUMB == 22

ELBOW_VISIBILITY_MIN == 50

ANGLE_JUMP_MAX_DEG == 2500

\* as elbow_raw, without the shoulder / elbow visibility test
elbow_raw_mut(frame, h) ==
    IF frame.lm # "list" \/ frame.len <= R_THUMB THEN NoneI
    ELSE 100 * frame.arm[h].ang

\* the angle at the elbow of the bowling arm (hundredths of a degree), NoneI
\* when the frame is emitted invalid before the jump guard; the virtual
\* distal point exists when the wrist or a hand landmark is visible
elbow_raw(frame, h) ==
    IF frame.lm # "list" \/ frame.len <= R_THUMB THEN NoneI
    ELSE IF frame.arm[h].vs < ELBOW_VISIBILITY_MIN \/ frame.arm[h].ve < ELBOW_VISIBILITY_MIN
         THEN NoneI
    ELSE IF frame.arm[h].vw < ELBOW_VISIBILITY_MIN /\ frame.arm[h].vh < ELBOW_VISIBILITY_MIN
         THEN NoneI
    ELSE 100 * frame.arm[h].ang

\* the loop over the frames from i on, prev = prev_angle (NoneI for None)
RECURSIVE elbow_from(_, _, _, _)
elbow_from(raw, n, i, prev) ==
    IF i >= n THEN << >>
    ELSE IF raw[i] = NoneI \/ (prev # NoneI /\ Abs(raw[i] - prev) > ANGLE_JUMP_MAX_DEG)
         THEN << [frame |-> i, angle_deg |-> NoneI, valid |-> FALSE] >>
              \o elbow_from(raw, n, i + 1, prev)
    ELSE << [frame |-> i, angle_deg |-> raw[i], valid |-> TRUE] >>
         \o elbow_from(raw, n, i + 1, raw[i])

compute_elbow_signal(pf, h) ==
    elbow_from([i \in DOMAIN pf |-> elbow_raw(F(pf, i), IF h = "R" THEN "R" ELSE "L")],
               NFrames(pf), 0, NoneI)

(***************************************************************************)
(* workers/elbow/compute_elbow_signal.py: the soft-clamping variant.  The   *)
(* frames it emits invalid are those of the rejecting variant before the   *)
(* jump guard.                                                             *)
(***************************************************************************)
\* as soft_clamp, the angle passed through
soft_clamp_mut(ang, prev) == ang

\* prev_angle + copysign(ANGLE_JUMP_MAX_DEG, delta) when |delta| exceeds it
soft_clamp(ang, prev) ==
    IF prev = NoneI THEN ang
    ELSE IF ang - prev > ANGLE_JUMP_MAX_DEG THEN prev + ANGLE_JUMP_MAX_DEG
    ELSE IF prev - ang > ANGLE_JUMP_MAX_DEG THEN prev - ANGLE_JUMP_MAX_DEG
    ELSE ang

RECURSIVE elbow_soft_from(_, _, _, _)
elbow_soft_from(raw, n, i, prev) ==
    IF i >= n THEN << >>
    ELSE IF raw[i] = NoneI
         THEN << [frame |-> i, angle_deg |-> NoneI, valid |-> FALSE] >>
              \o elbow_soft_from(raw, n, i + 1, prev)
    ELSE << [frame |-> i, angle_deg |-> soft_clamp(raw[i], prev), valid |-> TRUE] >>
         \o elbow_soft_from(raw, n, i + 1, soft_clamp(raw[i], prev))

compute_elbow_signal_soft(pf, h) ==
    elbow_soft_from([i \in DOMAIN pf |-> elbow_raw(F(pf, i), IF h = "R" THEN "R" ELSE "L")],
                    NFrames(pf), 0, NoneI)

(***************************************************************************)
(* workers/efficiency/basic_coaching.py                                    *)
(*   the z of every catalogued landmark is 0                               *)
(***************************************************************************)
UnknownBasic == [status |-> "unknown", confidence |-> 0]

\* _grade_from_thresholds on integers in a common scale
_grade_from_thresholds(value, warn, bad) ==
    IF value >= bad THEN "bad" ELSE IF value >= warn THEN "warn" ELSE "ok"

\* 1) pelvis drop after FFC over the frames ys (twice the pelvis y, in
\* hundredths): drop_warn 0.020, drop_bad 0.040, min_visible 5
knee_brace_proxy(fr, ffc) ==
    LET n == Cardinality(DOMAIN fr)
        end == Min2(n - 1, ffc + 8)
        S == {i \in ffc..end : hips_visible(fr[i])}
        y2 == [i \in S |-> fr[i].pt.hipL.y + fr[i].pt.hipR.y]
    IN  IF ffc = NoneI \/ ffc < 0 \/ ffc >= n THEN UnknownBasic
        ELSE IF Cardinality(S) < 5 THEN UnknownBasic
        ELSE [status |-> _grade_from_thresholds(SetMax({y2[i] : i \in S}) - y2[SetMin(S)], 4, 8),
              confidence |-> PyRound(100 * Cardinality(S), end - ffc + 1)]

\* 2) back ankle jitter before UAH: sqrt(pstdev(xs)^2 + pstdev(zs)^2) against
\* jitter_warn 0.006 and jitter_bad 0.012, compared as variances
back_foot_stability(fr, h, uah) ==
    LET n == Cardinality(DOMAIN fr)
        start == Max2(0, uah - 8)
        idx == IF h = "R" THEN RA ELSE LA
        S == {i \in start..uah : lm_reaches(fr[i], idx) /\ fr[i].vFeet >= GEO_VIS_MIN}
        x == [i \in S |-> IF h = "R" THEN fr[i].pt.ankR.x ELSE fr[i].pt.ankL.x]
        m == Cardinality(S)
        var == 100 * (m * SumOver([i \in S |-> x[i] * x[i]], S) - SumOver(x, S) * SumOver(x, S))
    IN  IF uah = NoneI \/ uah < 0 \/ uah >= n THEN UnknownBasic
        ELSE IF m < 5 THEN UnknownBasic
        ELSE [status |-> _grade_from_thresholds(var, 36 * m * m, 144 * m * m),
              confidence |-> PyRound(100 * m, uah - start + 1)]

\* 3) front-foot toe line against the batsman axis at BFC
toe_status(ang) ==
    IF ang = NoneI THEN UnknownBasic
    ELSE [status |-> IF ang >= 65 THEN "open" ELSE IF ang >= 35 THEN "semi_open" ELSE "aligned",
          confidence |-> 100]

front_foot_toe_alignment(fr, h, bfc, axis) ==
    IF axis = NoVec THEN UnknownBasic
    ELSE toe_status(compute_foot_intent(fr[bfc], h, axis))

basics_cues(knee, back, toe) ==
    (IF knee.status \in {"warn", "bad"} THEN << "knee_brace" >> ELSE << >>)
    \o (IF back.status \in {"warn", "bad"} THEN << "back_foot" >> ELSE << >>)
    \o (IF toe.status \in {"semi_open", "open"} THEN << "toe_line" >> ELSE << >>)

basics_out(knee, back, toe) ==
    [knee_brace_proxy |-> knee, back_foot_stability |-> back,
     front_foot_toe_alignment |-> toe, cues |-> basics_cues(knee, back, toe)]

basics_frames(fr, h, uah, ffc, bfc) ==
    basics_out(knee_brace_proxy(fr, ffc),
               back_foot_stability(fr, h, uah),
               IF bfc = NoneI \/ bfc < 0 \/ bfc >= Cardinality(DOMAIN fr) THEN UnknownBasic
               ELSE front_foot_toe_alignment(fr, h, bfc, compute_batsman_axis(fr, bfc)))

analyze_basics(pf, h, ev) ==
    basics_frames([i \in DOMAIN pf |-> F(pf, i)], h,
                  _event_frame(ev, "uah"), _event_frame(ev, "ffc"), _event_frame(ev, "bfc"))

(***************************************************************************)
(* interpretation/flow_analysis.py, interpretation/interpret_risks.py      *)
(***************************************************************************)
analyze_linear_flow(rs) ==
    LET c == Cardinality({k \in DOMAIN rs : rs[k].signal_strength >= 400})
    IN  IF c <= 1 THEN "SMOOTH" ELSE IF c = 2 THEN "INTERRUPTED" ELSE "FRAGMENTED"

region_map(risk_id) ==
    IF risk_id = "front_foot_braking_shock" THEN "lower_body"
    ELSE IF risk_id = "knee_brace_failure" THEN "knee"
    ELSE IF risk_id \in {"trunk_rotation_snap", "hip_shoulder_mismatch"} THEN "trunk"
    ELSE IF risk_id = "lateral_trunk_lean" THEN "lower_back"
    ELSE "other"

\* the region of the first risk whose region carries the maximum load
dominant_region(rs, max_strength) ==
    region_map(rs[SetMin({k \in DOMAIN rs : rs[k].signal_strength = max_strength})].risk_id)

interpret_level(rs, max_strength) ==
    [primary_risk_region |-> dominant_region(rs, max_strength),
     risk_level |-> IF max_strength >= 700 THEN "high"
                    ELSE IF max_strength >= 400 THEN "moderate" ELSE "low",
     flow_state |-> analyze_linear_flow(rs),
     occluded |-> \E k \in DOMAIN rs : rs[k].confidence = 0,
     confidence |-> PyRound(Min2(1000, max_strength + 200), 10)]

interpret_risks(rs) ==
    IF Len(rs) = 0
    THEN [primary_risk_region |-> "none", confidence |-> 0]
    ELSE interpret_level(rs, SetMax({rs[k].signal_strength : k \in DOMAIN rs}))

(***************************************************************************)
(* orchestrator/orchestrator.py: analyze, from the loaded video to the     *)
(* elbow stage.  The visual evidence of the risk worker (image files) and  *)
(* the stages after the elbow stage are outside the model.                 *)
(***************************************************************************)
PipePalette == {"Null", "Quiet", "Level", "Down", "Plant", "Behind"}

\* kinds of the clips that lose a single frame
GapPalette == {"Quiet", "Level"}

PipeClips ==
    ThreePhase(MaxFrames, PipePalette)
    \cup Uniform(FFC_MIN_FRAMES - 1, PipePalette) \cup Uniform(0, PipePalette)
    \cup {Gap(c, g) : c \in FourPhase(MaxFrames, GapPalette), g \in 0..(MaxFrames - 1)}

\* video.get("fps") as reported by the capture (0: not reported)
PipeFps == {0, 30}

\* keyword arguments analyze passes to evaluate_elbow_legality, and the
\* parameters evaluate_elbow_legality declares
elbow_call_kwargs == {"elbow_signal", "events", "fps", "pose_frames"}

elbow_params == {"elbow_signal", "events", "fps"}

Init ==
    /\ pc = "release_uah"
    /\ pose_frames \in PipeClips
    /\ hand \in {"R", "L"}
    /\ fps_val \in PipeFps
    /\ args = NoArgs
    /\ events = EmptyMap
    /\ action = EmptyMap
    /\ risks = << >>
    /\ elbow_signal = << >>
    /\ elbow = EmptyMap
    /\ ret = EmptyMap
    /\ raised = "none"

DetectReleaseUah ==
    /\ pc = "release_uah"
    /\ events' = detect_release_uah(pose_frames, hand, fps_val)
    /\ pc' = "ffc_bfc"
    /\ UNCHANGED << pose_frames, hand, fps_val, args, action, risks,
                    elbow_signal, elbow, ret, raised >>

\* the foot stage's events taken as the whole map instead of updating it
DetectFfcBfc_mut ==
    /\ pc = "ffc_bfc"
    /\ events' = IF Has(events, "release") /\ Has(events, "delivery_window")
                 THEN detect_ffc_bfc(pose_frames, TRUE, events["release"].frame, 0)
                 ELSE events
    /\ pc' = "classify"
    /\ UNCHANGED << pose_frames, hand, fps_val, args, action, risks,
                    elbow_signal, elbow, ret, raised >>

\* detect_ffc_bfc is called without fps; its events update the map
DetectFfcBfc ==
    /\ pc = "ffc_bfc"
    /\ events' = IF Has(events, "release") /\ Has(events, "delivery_window")
                 THEN detect_ffc_bfc(pose_frames, TRUE, events["release"].frame, 0) @@ events
                 ELSE events
    /\ pc' = "classify"
    /\ UNCHANGED << pose_frames, hand, fps_val, args, action, risks,
                    elbow_signal, elbow, ret, raised >>

\* the stage's result, or the exception that ends the run
ActionReturn(r) ==
    /\ raised' = r.raised
    /\ action' = IF r.raised = "none" THEN r.out ELSE action
    /\ pc' = IF r.raised = "none" THEN "risk" ELSE "failed"

ClassifyAction ==
    /\ pc = "classify"
    /\ ActionReturn(classify_action(pose_frames, hand, _event_frame(events, "bfc"),
                                    _event_frame(events, "ffc")))
    /\ UNCHANGED << pose_frames, hand, fps_val, args, events, risks,
                    elbow_signal, elbow, ret >>

RunRiskWorker ==
    /\ pc = "risk"
    /\ RiskReturn(run_risk_worker(pose_frames, events, action))
    /\ pc' = IF raised' = "none" THEN "basics" ELSE "failed"
    /\ UNCHANGED << pose_frames, hand, fps_val, args, events, action,
                    elbow_signal, elbow, ret >>

AnalyzeBasics ==
    /\ pc = "basics"
    /\ ret' = ("basics" :> analyze_basics(pose_frames, hand, events)) @@ ret
    /\ pc' = "interpret"
    /\ UNCHANGED << pose_frames, hand, fps_val, args, events, action, risks,
                    elbow_signal, elbow, raised >>

InterpretRisks ==
    /\ pc = "interpret"
    /\ ret' = ("interpretation" :> interpret_risks(risks)) @@ ret
    /\ pc' = "elbow_signal"
    /\ UNCHANGED << pose_frames, hand, fps_val, args, events, action, risks,
                    elbow_signal, elbow, raised >>

ComputeElbowSignal ==
    /\ pc = "elbow_signal"
    /\ elbow_signal' = compute_elbow_signal(pose_frames, hand)
    /\ pc' = "elbow"
    /\ UNCHANGED << pose_frames, hand, fps_val, args, events, action, risks,
                    elbow, ret, raised >>

\* a keyword argument that is not a parameter raises TypeError at the call
EvaluateElbowLegality ==
    /\ pc = "elbow"
    /\ IF elbow_call_kwargs \subseteq elbow_params
       THEN /\ elbow' = evaluate_elbow_legality(elbow_signal, events, fps_val)
            /\ raised' = raised
            /\ pc' = "clinician"
       ELSE /\ elbow' = elbow
            /\ raised' = "TypeError"
            /\ pc' = "failed"
    /\ UNCHANGED << pose_frames, hand, fps_val, args, events, action, risks,
                    elbow_signal, ret >>

Next ==
    \/ DetectReleaseUah
    \/ DetectFfcBfc
    \/ ClassifyAction
    \/ RunRiskWorker
    \/ AnalyzeBasics
    \/ InterpretRisks
    \/ ComputeElbowSignal
    \/ EvaluateElbowLegality

Spec == Init /\ [][Next]_vars

\* C6: for every input the pipeline run by analyze runs every stage to
\* completion without raising and returns events, action, elbow and risks.
C6_PipelineNeverRaises == raised = "none" /\ pc # "failed"

\* C7: a frame whose landmarks are null is a gap for every stage: on a clip
\* that holds such a frame (the frame selected as BFC, FFC, UAH or RELEASE
\* included) no stage raises.
C7_NullFrameNeverRaises ==
    (\E i \in DOMAIN pose_frames : pose_frames[i] = "Null") => raised = "none"

\* the event types a run may hold (release_uah.py returns release, uah,
\* delivery_window and peak; ffc_bfc.py returns ffc and bfc)
EventTypes == {"release", "uah", "delivery_window", "peak", "ffc", "bfc"}

\* the entries of the release stage are the same before and after a step
ReleaseEntriesKept ==
    \A k \in {"release", "uah"} :
        /\ Has(events, k) <=> Has(events', k)
        /\ Has(events, k) => events'[k] = events[k]

\* C15: release/uah detection precedes ffc/bfc detection and ffc/bfc
\* detection runs only once a release frame was returned: the events map
\* never holds ffc or bfc without release, holds one entry per event type,
\* is empty before the release stage and free of ffc/bfc before the foot
\* stage, and the foot stage leaves the release and uah entries as they were.
C15_FootStageAfterRelease ==
    /\ [](/\ (Has(events, "ffc") \/ Has(events, "bfc")) => Has(events, "release")
          /\ DOMAIN events \subseteq EventTypes
          /\ pc = "release_uah" => events = EmptyMap
          /\ pc = "ffc_bfc" => ~Has(events, "ffc") /\ ~Has(events, "bfc"))
    /\ [][pc = "ffc_bfc" =>
            /\ ReleaseEntriesKept
            /\ ~Has(events, "release") => events' = events]_vars

C15_Witness ==
    /\ pc = "classify"
    /\ Has(events, "release") /\ Has(events, "uah")
    /\ Has(events, "ffc") /\ Has(events, "bfc")

(***************************************************************************)
(* action/action_classifier.py and workers/pose/landmarks.py: the          *)
(* toe / hip-corridor classifier.                                          *)
(* Angles are in hundredths of a degree, visibilities in hundredths.  The  *)
(* clips below are built from five directions whose folded angle is known  *)
(* (0, 26.57, 45, 63.43, 90 degrees).  The rounded angle read-outs of the  *)
(* result (toe_bfc_xy, hip_ffc_xy, violation_ratio) are left out.          *)
(***************************************************************************)
BFC_WINDOW == 3

FFC_WINDOW == 5

VIS_THR_FOOT == 35

VIS_THR_HIP == 50

TOE_MIN_SAMPLES == 2

TOE_SIDE_ON_MIN == 6000

TOE_SEMI_OPEN_MIN == 3000

HIP_CORRIDOR_SIDE_ON == << 4500, 9000 >>

HIP_CORRIDOR_SEMI_OPEN == << 2500, 7000 >>

HIP_CORRIDOR_FRONT_ON == << 0, 4000 >>

\* IDX with the two shoulders added
IDX_mut ==
    [LEFT_HIP |-> 23, RIGHT_HIP |-> 24, LEFT_HEEL |-> 29, RIGHT_HEEL |-> 30,
     LEFT_FOOT_INDEX |-> 31, RIGHT_FOOT_INDEX |-> 32,
     LEFT_SHOULDER |-> 11, RIGHT_SHOULDER |-> 12]

\* the landmark names get_lm knows
IDX ==
    [LEFT_HIP |-> 23, RIGHT_HIP |-> 24, LEFT_HEEL |-> 29, RIGHT_HEEL |-> 30,
     LEFT_FOOT_INDEX |-> 31, RIGHT_FOOT_INDEX |-> 32]

\* None, as returned by get_lm
NoLm == [x |-> 0, y |-> 0, v |-> -1]

\* A frame of the corridor clips: the heel -> toe vector is toe, the
\* hip -> opposite shoulder vector is hip (both sides alike).
CorrFrame(lm, len, toe, vtoe, hipv, vhip) ==
    [lm |-> lm, len |-> len,
     at |-> [LEFT_HEEL |-> XYV(40, 90, vtoe), RIGHT_HEEL |-> XYV(40, 90, vtoe),
             LEFT_FOOT_INDEX |-> XYV(40 + toe[1], 90 - toe[2], vtoe),
             RIGHT_FOOT_INDEX |-> XYV(40 + toe[1], 90 - toe[2], vtoe),
             LEFT_HIP |-> XYV(50, 50, vhip), RIGHT_HIP |-> XYV(50, 50, vhip),
             LEFT_SHOULDER |-> XYV(50 - hipv[1], 50 - hipv[2], vhip),
             RIGHT_SHOULDER |-> XYV(50 - hipv[1], 50 - hipv[2], vhip)]]

CorrFrames ==
    [CNull      |-> CorrFrame("null", 0, << 0, 10 >>, 0, << 10, 20 >>, 0),
     CSide      |-> CorrFrame("list", 33, << 0, 10 >>, 90, << 10, 20 >>, 90),
     CSideOut   |-> CorrFrame("list", 33, << 0, 10 >>, 90, << 10, 0 >>, 90),
     CFront     |-> CorrFrame("list", 33, << 10, 0 >>, 90, << 20, 10 >>, 90),
     CHipHidden |-> CorrFrame("list", 33, << 0, 10 >>, 90, << 10, 20 >>, 30),
     CToeHidden |-> CorrFrame("list", 33, << 0, 10 >>, 20, << 10, 10 >>, 90)]

\* get_lm(pose_frame, name)
get_lm(frame, name) ==
    IF frame.lm = "null" \/ frame.len = 0 THEN NoLm
    ELSE IF name \notin DOMAIN IDX THEN NoLm
    ELSE IF IDX[name] >= frame.len THEN NoLm
    ELSE frame.at[name]

_vis_ok(lm, thr) == lm # NoLm /\ lm.v >= thr

\* |atan2(dy, dx)| folded to [0, 90], for the directions of the clips
_angle_xy(a, b) ==
    IF b.y = a.y THEN 0
    ELSE IF b.x = a.x THEN 9000
    ELSE IF Abs(b.x - a.x) = Abs(b.y - a.y) THEN 4500
    ELSE IF Abs(b.x - a.x) = 2 * Abs(b.y - a.y) THEN 2657
    ELSE CHOOSE ang \in {6343} : 2 * Abs(b.x - a.x) = Abs(b.y - a.y)

\* exp(-0.5 * k^2) in ten-thousandths
_gaussian_weights(k) ==
    IF Abs(k) = 0 THEN 10000 ELSE IF Abs(k) = 1 THEN 6065
    ELSE IF Abs(k) = 2 THEN 1353 ELSE IF Abs(k) = 3 THEN 111
    ELSE IF Abs(k) = 4 THEN 3 ELSE 0

_window(center, radius, total) ==
    Max2(0, center - radius)..Min2(total - 1, center + radius)

\* the angles of the frames idx[1], idx[2], ... (already filtered)
angles_at(fr, idx, a_name, b_name) ==
    [k \in 1..Len(idx) |-> _angle_xy(get_lm(fr[idx[k]], a_name),
                                     get_lm(fr[idx[k]], b_name))]

_collect_angles(fr, idxs, a_name, b_name, thr) ==
    angles_at(fr,
              SortedSeq({i \in idxs : /\ _vis_ok(get_lm(fr[i], a_name), thr)
                                      /\ _vis_ok(get_lm(fr[i], b_name), thr)}),
              a_name, b_name)

\* _smooth as the fraction num / den (values non-empty)
_smooth(values) ==
    IF Len(values) < 3
    THEN [num |-> SumOver(values, DOMAIN values), den |-> Len(values)]
    ELSE [num |-> SumOver([k \in DOMAIN values |->
                             values[k] * _gaussian_weights(k - 1 - (Len(values) \div 2))],
                          DOMAIN values),
          den |-> SumOver([k \in DOMAIN values |->
                             _gaussian_weights(k - 1 - (Len(values) \div 2))],
                          DOMAIN values)]

corridor_from_toe_angle(toe) ==
    IF toe.num >= TOE_SIDE_ON_MIN * toe.den
    THEN [intent |-> "side_on", corridor |-> HIP_CORRIDOR_SIDE_ON]
    ELSE IF toe.num >= TOE_SEMI_OPEN_MIN * toe.den
    THEN [intent |-> "semi_open", corridor |-> HIP_CORRIDOR_SEMI_OPEN]
    ELSE [intent |-> "front_on", corridor |-> HIP_CORRIDOR_FRONT_ON]

within_corridor(angle, corridor) == corridor[1] <= angle /\ angle <= corridor[2]

corr_out(intent, type, compliance) ==
    [intent |-> intent, type |-> type, compliance |-> compliance]

CorrUnknown == corr_out("unknown", "unknown", 0)

violations_in(hip_vals, corridor) ==
    Cardinality({k \in DOMAIN hip_vals : ~within_corridor(hip_vals[k], corridor)})

\* sections 2a and 3: violation_ratio < 0.5 keeps the intent
corr_hips(c, hip_vals) ==
    IF Len(hip_vals) < TOE_MIN_SAMPLES
    THEN IF Len(hip_vals) > 0 /\ violations_in(hip_vals, c.corridor) = 0
         THEN corr_out(c.intent, c.intent, 70)
         ELSE corr_out(c.intent, c.intent, 50)
    ELSE IF 2 * violations_in(hip_vals, c.corridor) < Max2(1, Len(hip_vals))
         THEN corr_out(c.intent, c.intent, 100)
         ELSE corr_out(c.intent, "mixed", 0)

corr_intent(fr, is_r, ffc_frame, c) ==
    IF ffc_frame = NoneI \/ ffc_frame < 0 \/ ffc_frame >= Cardinality(DOMAIN fr)
    THEN corr_out(c.intent, c.intent, 50)
    ELSE corr_hips(c, _collect_angles(fr,
                                      _window(ffc_frame, FFC_WINDOW, Cardinality(DOMAIN fr)),
                                      IF is_r THEN "RIGHT_HIP" ELSE "LEFT_HIP",
                                      IF is_r THEN "LEFT_SHOULDER" ELSE "RIGHT_SHOULDER",
                                      VIS_THR_HIP))

corr_toe(fr, is_r, ffc_frame, toe_vals) ==
    IF Len(toe_vals) < TOE_MIN_SAMPLES THEN CorrUnknown
    ELSE corr_intent(fr, is_r, ffc_frame, corridor_from_toe_angle(_smooth(toe_vals)))

corr_frames(fr, is_r, bfc_frame, ffc_frame) ==
    IF bfc_frame < 0 \/ bfc_frame >= Cardinality(DOMAIN fr) THEN CorrUnknown
    ELSE corr_toe(fr, is_r, ffc_frame,
                  _collect_angles(fr,
                                  _window(bfc_frame, BFC_WINDOW, Cardinality(DOMAIN fr)),
                                  IF is_r THEN "RIGHT_HEEL" ELSE "LEFT_HEEL",
                                  IF is_r THEN "RIGHT_FOOT_INDEX" ELSE "LEFT_FOOT_INDEX",
                                  VIS_THR_FOOT))

\* classify_action(pose_frames, hand, bfc_frame, ffc_frame) of the corridor
\* classifier
corridor_classify_action(pf, h, bfc_frame, ffc_frame) ==
    IF DOMAIN pf = {} \/ bfc_frame = NoneI THEN CorrUnknown
    ELSE corr_frames([i \in DOMAIN pf |-> CorrFrames[pf[i]]], h = "R",
                     bfc_frame, ffc_frame)

(***************************************************************************)
(* The corridor classifier as a function of its arguments.                 *)
(***************************************************************************)
CorrPalette == {"CNull", "CSide", "CSideOut", "CFront", "CHipHidden", "CToeHidden"}

CorrClips == ThreePhase(MaxFrames, CorrPalette) \cup Uniform(0, CorrPalette)

CorrArgs ==
    [bfc : {NoneI, 1, 4, MaxFrames}, ffc : {NoneI, 3, 6, MaxFrames - 1, MaxFrames}]

InitCorr ==
    /\ pc = "corr_call"
    /\ pose_frames \in CorrClips
    /\ hand \in {"R", "L"}
    /\ args \in CorrArgs
    /\ fps_val = 0
    /\ events = EmptyMap
    /\ action = EmptyMap
    /\ risks = << >>
    /\ elbow_signal = << >>
    /\ elbow = EmptyMap
    /\ ret = EmptyMap
    /\ raised = "none"

CallCorridorClassify ==
    /\ pc = "corr_call"
    /\ ret' = corridor_classify_action(pose_frames, hand, args.bfc, args.ffc)
    /\ pc' = "corr_done"
    /\ UNCHANGED << pose_frames, hand, fps_val, args, events, action, risks,
                    elbow_signal, elbow, raised >>

NextCorr == CallCorridorClassify

SpecCorr == InitCorr /\ [][NextCorr]_vars

\* the bowling-side hip and the opposite shoulder
HipName == IF hand = "R" THEN "RIGHT_HIP" ELSE "LEFT_HIP"

OppShoulderName == IF hand = "R" THEN "LEFT_SHOULDER" ELSE "RIGHT_SHOULDER"

\* the frames of the FFC window whose bowling-side hip and opposite shoulder
\* are in the landmark list with visibility >= 0.5, read from the clip itself
HipSampleFrames ==
    IF args.ffc = NoneI \/ args.ffc < 0 \/ args.ffc >= NFrames(pose_frames) THEN {}
    ELSE {i \in _window(args.ffc, FFC_WINDOW, NFrames(pose_frames)) :
            /\ CorrFrames[pose_frames[i]].lm = "list"
            /\ CorrFrames[pose_frames[i]].len > 24
            /\ CorrFrames[pose_frames[i]].at[HipName].v >= VIS_THR_HIP
            /\ CorrFrames[pose_frames[i]].at[OppShoulderName].v >= VIS_THR_HIP}

\* the corridor of the result's intent
IntentCorridor ==
    IF ret.intent = "side_on" THEN HIP_CORRIDOR_SIDE_ON
    ELSE IF ret.intent = "semi_open" THEN HIP_CORRIDOR_SEMI_OPEN
    ELSE HIP_CORRIDOR_FRONT_ON

\* the hip samples that lie outside the corridor of the intent
HipViolationFrames ==
    {i \in HipSampleFrames :
        ~within_corridor(_angle_xy(CorrFrames[pose_frames[i]].at[HipName],
                                   CorrFrames[pose_frames[i]].at[OppShoulderName]),
                         IntentCorridor)}

HipScarce == Cardinality(HipSampleFrames) < 2

\* C12: with toe intent recovered and scarce hip evidence the type is the
\* intent, with compliance 0.7 when the single hip sample lies inside the
\* corridor and 0.5 otherwise.
C12_ScarceHipDegrades ==
    (pc = "corr_done" /\ ret.intent # "unknown" /\ HipScarce)
        => /\ ret.type = ret.intent
           /\ ret.compliance =
                  IF Cardinality(HipSampleFrames) = 1 /\ HipViolationFrames = {}
                  THEN 70 ELSE 50

(***************************************************************************)
(* compute_elbow_signal (both variants) as a function of its arguments.    *)
(***************************************************************************)
SigPalette == {"Null", "Behind", "NoFeet", "Named", "Bent", "Mid", "Spike", "Quiet"}

SigClips == ThreePhase(MaxFrames, SigPalette) \cup Uniform(0, SigPalette)

InitSig ==
    /\ pc = "sig_call"
    /\ pose_frames \in SigClips
    /\ hand \in {"R", "L"}
    /\ args = NoArgs
    /\ fps_val = 0
    /\ events = EmptyMap
    /\ action = EmptyMap
    /\ risks = << >>
    /\ elbow_signal = << >>
    /\ elbow = EmptyMap
    /\ ret = EmptyMap
    /\ raised = "none"

\* workers/elbow/elbow_signal.py
CallComputeElbowSignal ==
    /\ pc = "sig_call"
    /\ elbow_signal' = compute_elbow_signal(pose_frames, hand)
    /\ pc' = "sig_done"
    /\ UNCHANGED << pose_frames, hand, fps_val, args, events, action, risks,
                    elbow, ret, raised >>

\* workers/elbow/compute_elbow_signal.py
CallComputeElbowSignalSoft ==
    /\ pc = "sig_call"
    /\ elbow_signal' = compute_elbow_signal_soft(pose_frames, hand)
    /\ pc' = "sig_done"
    /\ UNCHANGED << pose_frames, hand, fps_val, args, events, action, risks,
                    elbow, ret, raised >>

NextSig == CallComputeElbowSignal \/ CallComputeElbowSignalSoft

SpecSig == InitSig /\ [][NextSig]_vars

\* positions of the valid entries of the signal
ValidAt == {k \in DOMAIN elbow_signal : elbow_signal[k].valid}

\* k and m are successive valid entries (none valid between them)
Successive(k, m) == k < m /\ ~(\E j \in ValidAt : k < j /\ j < m)

\* C13: in the output of compute_elbow_signal (either variant) two successive
\* valid samples, invalid frames between them skipped, differ by at most
\* ANGLE_JUMP_MAX_DEG (25 degrees).
C13_SuccessiveValidWithinJump ==
    pc = "sig_done" =>
        \A k, m \in ValidAt :
            Successive(k, m) =>
                Abs(elbow_signal[m].angle_deg - elbow_signal[k].angle_deg)
                    <= ANGLE_JUMP_MAX_DEG

\* the clip holds a 90-degree frame right after a 20-degree frame, both
\* measurable, and the 90-degree frame was emitted valid with a clamped angle
C13_Witness ==
    /\ pc = "sig_done"
    /\ \E k \in DOMAIN elbow_signal :
          /\ k > 1
          /\ pose_frames[k - 2] = "Bent" /\ pose_frames[k - 1] = "Spike"
          /\ elbow_signal[k - 1].valid
          /\ elbow_signal[k].valid
          /\ elbow_signal[k].angle_deg = 2000 + ANGLE_JUMP_MAX_DEG

\* a frame of the clip is emitted invalid before any angle is computed
Unmeasurable(i) ==
    \/ F(pose_frames, i).lm # "list"
    \/ F(pose_frames, i).len <= R_THUMB
    \/ F(pose_frames, i).arm[hand].vs < ELBOW_VISIBILITY_MIN
    \/ F(pose_frames, i).arm[hand].ve < ELBOW_VISIBILITY_MIN

\* C14: compute_elbow_signal emits one entry per input frame, in input order;
\* an entry is invalid exactly when its angle is null; a frame with missing
\* landmarks or low shoulder / elbow visibility is emitted invalid with a null
\* angle; a valid angle is never fabricated.
C14_OneEntryPerFrame ==
    pc = "sig_done" =>
        /\ Len(elbow_signal) = NFrames(pose_frames)
        /\ \A k \in DOMAIN elbow_signal :
              /\ elbow_signal[k].frame = k - 1
              /\ elbow_signal[k].valid = (elbow_signal[k].angle_deg # NoneI)
              /\ Unmeasurable(k - 1) =>
                     (~elbow_signal[k].valid /\ elbow_signal[k].angle_deg = NoneI)

\* a clip with a null frame and a low-visibility frame, and a valid entry
C14_Witness ==
    /\ pc = "sig_done"
    /\ \E i, j \in DOMAIN pose_frames : pose_frames[i] = "Null" /\ pose_frames[j] = "Behind"
    /\ ValidAt # {}
    /\ Cardinality(ValidAt) < Len(elbow_signal)

(***************************************************************************)
(* clinician/interpreter.py, clinician/loader.py, clinician/bands.py       *)
(*   The tables RISKS and CHAIN are loaded once (load_yaml caches the      *)
(*   parsed file) and shared by every call of ClinicianInterpreter.build.  *)
(*   Of a risk's table entry the model keeps the cues: per side (kid,      *)
(*   coach) a list of cue records, of which it keeps the intent.  The yaml *)
(*   files are not part of the repository: the intents they hold and the   *)
(*   band thresholds of globals.yaml are drawn below.  Strengths and       *)
(*   confidences are in thousandths.                                       *)
(***************************************************************************)
MaxRuns == 3

ClinRiskIds == << "trunk_rotation_snap", "lateral_trunk_lean", "knee_brace_failure" >>

ClinStrengths == {150, 450, 700}

\* the raw risks handed to build: one entry per risk id
ClinRaw ==
    { [k \in 1..3 |-> [risk_id |-> ClinRiskIds[k], signal_strength |-> v[k], confidence |-> 600]] :
        v \in ClinStrengths \X ClinStrengths \X ClinStrengths }

\* the intent of a cue as the yaml file holds it
LoadedIntents == {"correct", "monitor"}

Cues(i) == [kid |-> << [intent |-> i] >>, coach |-> << [intent |-> i] >>]

\* RISKS as load_yaml returns it
LoadedTables ==
    { [k \in {ClinRiskIds[j] : j \in 1..3} |->
          [cues |-> Cues(i[CHOOSE j \in 1..3 : ClinRiskIds[j] = k])]] :
        i \in LoadedIntents \X LoadedIntents \X LoadedIntents }

severity_band(v) ==
    IF v >= 800 THEN "VERY_HIGH" ELSE IF v >= 600 THEN "HIGH"
    ELSE IF v >= 300 THEN "MODERATE" ELSE "LOW"

confidence_band(c) == IF c >= 700 THEN "HIGH" ELSE IF c >= 400 THEN "MEDIUM" ELSE "LOW"

SEV_RANK(s) ==
    IF s = "VERY_HIGH" THEN 4 ELSE IF s = "HIGH" THEN 3
    ELSE IF s = "MODERATE" THEN 2 ELSE IF s = "LOW" THEN 1 ELSE 0

CONF_RANK(c) == IF c = "HIGH" THEN 3 ELSE IF c = "MEDIUM" THEN 2 ELSE IF c = "LOW" THEN 1 ELSE 0

\* analyze_linear_flow: the contributors and the flow state
flow_contributors(raw) ==
    {raw[k].risk_id : k \in {j \in DOMAIN raw : raw[j].signal_strength >= 400}}

\* build_chain: the state of the kinetic chain, upper case
build_chain(raw) ==
    IF flow_contributors(raw) = {"trunk_rotation_snap", "lateral_trunk_lean"}
    THEN "CONTROLLED_LOW_LINEAR"
    ELSE analyze_linear_flow(raw)

\* build_risks: "cues" is the table's own cues object, not a copy
build_risks(raw, tbl) ==
    [k \in DOMAIN raw |->
        [risk_id |-> raw[k].risk_id,
         severity |-> severity_band(raw[k].signal_strength),
         confidence |-> confidence_band(raw[k].confidence),
         cues |-> tbl[raw[k].risk_id].cues,
         signal_strength |-> raw[k].signal_strength]]

\* _risk_sort_key compared: a sorts strictly after b
KeyLess(a, b) ==
    \/ SEV_RANK(a.severity) < SEV_RANK(b.severity)
    \/ /\ SEV_RANK(a.severity) = SEV_RANK(b.severity)
       /\ \/ CONF_RANK(a.confidence) < CONF_RANK(b.confidence)
          \/ /\ CONF_RANK(a.confidence) = CONF_RANK(b.confidence)
             /\ a.signal_strength < b.signal_strength

\* position of entry k in sorted(built, key=_risk_sort_key, reverse=True):
\* a stable sort, so equal keys keep their order
SortedPos(built, k) ==
    1 + Cardinality({j \in DOMAIN built :
                        \/ KeyLess(built[k], built[j])
                        \/ (j < k /\ ~KeyLess(built[j], built[k]))})

\* sorted(...)[:2]
TopTwo(built) ==
    [p \in 1..Min2(2, Len(built)) |->
        built[CHOOSE k \in DOMAIN built : SortedPos(built, k) = p]]

MonitorCues(cues) ==
    [side \in DOMAIN cues |->
        [c \in DOMAIN cues[side] |-> [cues[side][c] EXCEPT !.intent = "monitor"]]]

\* _force_monitor_intent assigns c["intent"] in the cue records of the
\* selected risks; these are the records of the table
_force_monitor_intent(tbl, top) ==
    [rid \in DOMAIN tbl |->
        IF \E p \in DOMAIN top : top[p].risk_id = rid
        THEN [tbl[rid] EXCEPT !.cues = MonitorCues(tbl[rid].cues)]
        ELSE tbl[rid]]

\* the protected report: severities capped at MODERATE, cues read back
\* through the table
controlled_risks(top, tbl) ==
    [p \in DOMAIN top |->
        [top[p] EXCEPT !.severity = IF @ \in {"HIGH", "VERY_HIGH"} THEN "MODERATE" ELSE @,
                       !.cues = tbl[top[p].risk_id].cues]]

SetMaxRank(rs) ==
    IF Len(rs) = 0 THEN 1
    ELSE Max2(1, CHOOSE m \in {SEV_RANK(rs[k].severity) : k \in DOMAIN rs} :
                    \A k \in DOMAIN rs : SEV_RANK(rs[k].severity) <= m)

build_summary(chain, rs) ==
    IF chain = "CONTROLLED_LOW_LINEAR" THEN "MONITOR"
    ELSE IF SetMaxRank(rs) >= 3 THEN "CORRECT" ELSE "MONITOR"

clinician_report(chain, rs, tbl) ==
    [RISKS |-> tbl,
     out |-> [kinetic_chain |-> chain, risks |-> rs,
              recommendation_level |-> build_summary(chain, rs)]]

build_controlled(chain, top, tbl) ==
    clinician_report(chain, controlled_risks(top, tbl), tbl)

\* ClinicianInterpreter.build: the report and the table RISKS after the call
build(raw, tbl) ==
    IF build_chain(raw) = "CONTROLLED_LOW_LINEAR"
    THEN build_controlled(build_chain(raw), TopTwo(build_risks(raw, tbl)),
                          _force_monitor_intent(tbl, TopTwo(build_risks(raw, tbl))))
    ELSE clinician_report(build_chain(raw), build_risks(raw, tbl), tbl)

\* ret holds the loaded table, the table as it is now, the number of calls
\* made and the last report; args the risks of the last call
InitClin ==
    /\ pc = "clin"
    /\ pose_frames = << >>
    /\ hand = "R"
    /\ fps_val = 0
    /\ args = << >>
    /\ events = EmptyMap
    /\ action = EmptyMap
    /\ risks = << >>
    /\ elbow_signal = << >>
    /\ elbow = EmptyMap
    /\ \E t \in LoadedTables :
          ret = [loaded |-> t, RISKS |-> t, runs |-> 0, clinician |-> EmptyMap]
    /\ raised = "none"

ClinReturn(raw, b) ==
    /\ args' = raw
    /\ ret' = [ret EXCEPT !.RISKS = b.RISKS, !.runs = @ + 1, !.clinician = b.out]

ClinicianBuild ==
    /\ pc = "clin"
    /\ ret.runs < MaxRuns
    /\ \E raw \in ClinRaw : ClinReturn(raw, build(raw, ret.RISKS))
    /\ UNCHANGED << pc, pose_frames, hand, fps_val, events, action, risks,
                    elbow_signal, elbow, raised >>

NextClin == ClinicianBuild

SpecClin == InitClin /\ [][NextClin]_vars

FldSides == {-3, 0, 1, 4}

FldPoints ==
    { [B |-> XY(50, 90), toe |-> XY(60, 90 + o[1]), heel |-> XY(57, 90 + o[2]),
       ank |-> XY(58, 90 + o[3]), knee |-> XY(58, 90 + o[4]),
       has_B_toe |-> TRUE, has_F_toe |-> TRUE,
       has_heel |-> h[1], has_ank |-> h[2], has_knee |-> h[3],
       has_mh_b |-> TRUE, has_mh_f |-> TRUE,
       travel |-> XY(4, 0), hip_w2 |-> 100] :
        o \in FldSides \X FldSides \X FldSides \X FldSides,
        h \in BOOLEAN \X BOOLEAN \X BOOLEAN }

InitFld ==
    /\ pc = "fld_call"
    /\ pose_frames = << >>
    /\ hand \in {"R", ""}
    /\ fps_val = 0
    /\ args \in FldPoints
    /\ events = EmptyMap
    /\ action = EmptyMap
    /\ risks = << >>
    /\ elbow_signal = << >>
    /\ elbow = EmptyMap
    /\ ret = EmptyMap
    /\ raised = "none"

CallFootLineDeviation ==
    /\ pc = "fld_call"
    /\ ret' = fld_located(args, fld_hand_conf(hand))
    /\ pc' = "fld_done"
    /\ UNCHANGED << pose_frames, hand, fps_val, args, events, action, risks,
                    elbow_signal, elbow, raised >>

NextFld == CallFootLineDeviation

SpecFld == InitFld /\ [][NextFld]_vars

\* signed offset of a front-foot landmark from the line of progression
FldOffset(pt) == _cross(args.travel, Minus(pt, args.B))

\* the toe is inward and the heel does not follow (the ankle, when the heel
\* is unavailable)
ToeOnlyCross ==
    /\ FldOffset(args.toe) > 0
    /\ IF args.has_heel THEN FldOffset(args.heel) <= 0
       ELSE args.has_ank /\ FldOffset(args.ank) <= 0

\* knee-over-ankle collapse on the toe's side: knee and ankle both inward
\* and at least 0.035 hip widths apart
KneeCollapse ==
    /\ args.has_knee /\ args.has_ank
    /\ FldOffset(args.knee) > 0 /\ FldOffset(args.ank) > 0
    /\ 1000 * Abs(FldOffset(args.knee) - FldOffset(args.ank))
          >= 35 * Hypot(args.travel.x, args.travel.y) * ISqrt(args.hip_w2)

====
